---- MODULE Spec2Model ----
(***************************************************************************)
(* Cyrcdian: the Wake/Sleep Event Detector (src/src/lib/wake-detection.ts), *)
(* the Sleep Debt Tracker (src/src/lib/sleep-debt.ts), the sleep planner   *)
(* (src/src/lib/sleep.ts), the energy level                                *)
(* (src/src/lib/energy-tracking.ts, src/src/lib/circadian.ts) and the      *)
(* NotificationService (src/src/lib/energy-tracking.ts).                   *)
(*                                                                         *)
(* Time is counted in minutes since an arbitrary local midnight; a Date is *)
(* the integer number of minutes.  Local time has a fixed offset, so a     *)
(* calendar day is DAY minutes.  Hours of sleep are counted in hundredths  *)
(* of an hour.  A listener is an opaque function, named by a number.       *)
(*                                                                         *)
(* The code runs in a browser (document and window exist) whose            *)
(* localStorage accepts every write, so the catch branches around the      *)
(* storage calls are not taken.  The event loop runs one handler at a      *)
(* time: a signal is delivered only when no handler is running, and the    *)
(* clock does not move while one runs.  A handler that notifies listeners  *)
(* is a sequence of steps: up to notifyWakeEvent, one step per listener    *)
(* call and return, and the rest of the handler when notifyWakeEvent       *)
(* returns.  start and stop are called between handlers.                   *)
(***************************************************************************)
EXTENDS Integers, Sequences, FiniteSets, TLC

VARIABLES
    isActive,             \* WakeDetectionService.isActive
    lastVisibilityChange, \* WakeDetectionService.lastVisibilityChange
    wakeCallbacks,        \* the array this.wakeCallbacks refers to
    visibilityState,      \* document.visibilityState
    now,                  \* the clock read by new Date()
    localStorage,         \* window.localStorage: key -> JSON text (a sequence of objects)
    stack,                \* the notifyWakeEvent calls in progress, innermost last
    done,                 \* history: the notification that has just returned, if any
    propagated,           \* history: an exception left notifyWakeEvent
    sig,                  \* history: the last signal or manual log
    nops,                 \* history: the signals, manual logs and calls by listeners so far
    lastAdded,            \* history: per day bucket, the session addSleepSession got last
    lastInsert,           \* history: the clock at the last addSleepSession
    debt,                 \* the SleepDebt the last calculateSleepDebt returned
    input,                \* the arguments the caller of a pure function holds
    output,               \* the last call of a pure function: its arguments and its value
    observed,             \* history: what an observer of the detector's signals has seen
    heap,                 \* the AlarmOptions objects, by reference
    alarms,               \* NotificationService.alarms: the references, in insertion order
    timeouts,             \* NotificationService.timeouts: alarm id -> timer handle
    timers,               \* the browser's pending timers set by scheduleAlarm
    pending,              \* the scheduleAlarm calls that await requestPermission
    permission,           \* Notification.permission
    shown,                \* history: the notifications triggerAlarm has shown
    cancelled             \* history: the ids cancelled and not scheduled or toggled since

vars == <<isActive, lastVisibilityChange, wakeCallbacks, visibilityState, now,
          localStorage, stack, done, propagated, sig, nops, lastAdded,
          lastInsert, debt, input, output, observed, heap, alarms, timeouts,
          timers, pending, permission, shown, cancelled>>

wakeVars == <<isActive, lastVisibilityChange, wakeCallbacks, visibilityState,
              stack, done, propagated>>
debtVars == <<lastAdded, lastInsert, debt>>
pureVars == <<input, output>>
alarmVars == <<heap, alarms, timeouts, timers, pending, permission, shown,
               cancelled>>

----------------------------------------------------------------------------
(* Bounds of the model *)

MaxOps == 3          \* signals and manual logs in one behaviour of Spec
MaxNotifyOps == 3    \* signals, manual logs and calls by listeners in one of SpecNotify
MaxCallbacks == 2    \* length of the listener array
MaxDebtOps == 3      \* sessions added and clock advances in one behaviour of SpecDebt

(* The listener functions. *)
Callbacks == {1, 2}

(* Minutes between one signal and the next: in Spec, and in SpecNotify. *)
Deltas == {179, 180, 300, 31 * 24 * 60}
NotifyDeltas == {180}

----------------------------------------------------------------------------
(* Program constants *)

NULL == -1                       \* null / undefined
NaN == -2                        \* NaN, the time value of an Invalid Date
sleepThresholdMinutes == 180
HIGH_MINUTES == 480
MEDIUM_MINUTES == 360
CYCLE_MINUTES == 90
RETENTION_DAYS == 30
DAY == 24 * 60                   \* minutes of a calendar day
HOUR == 10 * 10                  \* hundredths of an hour in an hour
DEFAULT_OPTIMAL_SLEEP == 8       \* hours
DEBT_DAYS == 7
DEBT_RETENTION_DAYS == 30
DETECTOR_KEY == "cyrcdian-sleep-sessions"
SESSIONS_KEY == "cyrcdian_sleep_sessions"

----------------------------------------------------------------------------
(* Helpers *)

Last(s) == s[Len(s)]
Front(s) == SubSeq(s, 1, Len(s) - 1)

(* Math.round of the quotient n / m, m > 0: the nearest integer, a half upwards. *)
MathRound(n, m) == (2 * n + m) \div (2 * m)

(* JSON.stringify of a Date is its ISO string, new Date(string) reads it back. *)
DateToJSON(t) == [iso |-> t]
DateFromJSON(j) == j.iso

----------------------------------------------------------------------------
(* window.localStorage *)

(* localStorage.getItem(key): the stored text, or the empty text when the key is absent
   (both make the readers below return []). *)
getItem(key) == IF key \in DOMAIN localStorage THEN localStorage[key] ELSE <<>>

(* The store after localStorage.setItem(key, text). *)
setItem(key, text) ==
    [k \in DOMAIN localStorage \cup {key} |-> IF k = key THEN text ELSE localStorage[k]]

----------------------------------------------------------------------------
(* WakeDetectionService: the stored sleep history *)

(* JSON.stringify of a detector SleepSession: a member whose value is undefined is
   left out, a Date becomes its ISO string. *)
DetectorSessionToJSON(s) ==
    [m \in {"bedtime", "wakeTime", "duration", "cycles", "isAutoDetected"}
           \cup (IF s.quality = NULL THEN {} ELSE {"quality"}) |->
        CASE m = "bedtime" -> DateToJSON(s.bedtime)
          [] m = "wakeTime" -> DateToJSON(s.wakeTime)
          [] m = "duration" -> s.duration
          [] m = "cycles" -> s.cycles
          [] m = "isAutoDetected" -> s.isAutoDetected
          [] m = "quality" -> s.quality]

(* One element of getSleepHistory's map: the members of the stored object, the two
   dates read back; a member the object lacks reads as undefined. *)
DetectorSessionFromJSON(j) ==
    [bedtime |-> DateFromJSON(j.bedtime),
     wakeTime |-> DateFromJSON(j.wakeTime),
     duration |-> j.duration,
     quality |-> IF "quality" \in DOMAIN j THEN j.quality ELSE NULL,
     cycles |-> j.cycles,
     isAutoDetected |-> j.isAutoDetected]

getSleepHistory ==
    LET data == getItem(DETECTOR_KEY)
    IN  [i \in 1..Len(data) |-> DetectorSessionFromJSON(data[i])]

(* Math.round(durationMinutes / 90) *)
EstimateCyclesFloor(durationMinutes) == durationMinutes \div CYCLE_MINUTES
EstimateCycles(durationMinutes) == MathRound(durationMinutes, CYCLE_MINUTES)

(* The sessions storeSleepSession keeps: those that woke within the last 30 days. *)
Recent(sessions) ==
    LET thirtyDaysAgo == now' - RETENTION_DAYS * DAY
    IN  SelectSeq(sessions, LAMBDA s : s.wakeTime # NULL /\ s.wakeTime >= thirtyDaysAgo)

(* The session storeSleepSession builds from its three arguments. *)
NewDetectorSession(bedtime, wakeTime, durationMinutes) ==
    [bedtime |-> bedtime,
     wakeTime |-> wakeTime,
     duration |-> durationMinutes,
     quality |-> NULL,
     cycles |-> EstimateCycles(durationMinutes),
     isAutoDetected |-> TRUE]

(* storeSleepSession: the store it leaves.  new Date() is the clock of the step. *)
storeSleepSession(bedtime, wakeTime, durationMinutes) ==
    LET existingSessions == Append(getSleepHistory,
                                   NewDetectorSession(bedtime, wakeTime, durationMinutes))
        recentSessions == Recent(existingSessions)
    IN  setItem(DETECTOR_KEY,
                [i \in 1..Len(recentSessions) |-> DetectorSessionToJSON(recentSessions[i])])

----------------------------------------------------------------------------
(* WakeDetectionService: notification *)

calculateWakeConfidenceStrict(inactiveMinutes) ==
    IF inactiveMinutes > HIGH_MINUTES THEN "high"
    ELSE IF inactiveMinutes > MEDIUM_MINUTES THEN "medium"
    ELSE "low"

calculateWakeConfidence(inactiveMinutes) ==
    IF inactiveMinutes >= HIGH_MINUTES THEN "high"
    ELSE IF inactiveMinutes >= MEDIUM_MINUTES THEN "medium"
    ELSE "low"

WakeEvent(timestamp, confidence, source) ==
    [timestamp |-> timestamp, confidence |-> confidence, source |-> source]

(* A call of notifyWakeEvent in progress.  forEach fixes the array object and its
   length when it starts: arr is that object's present content, live says that
   this.wakeCallbacks still refers to it, len is the length read at the start and
   k the next index.  incb: the listener at index k is running.  kind, at, d and
   quality are the caller's locals (which method, its now or wakeTime, its
   inactiveMinutes or durationMinutes, its quality argument).  History:
   snap is the content at the start, got the listeners called so far, threw and
   reent record that a listener threw, or called back into the service. *)
NewFrame(kind, event, at, d, quality) ==
    [kind |-> kind, event |-> event, at |-> at, d |-> d, quality |-> quality,
     arr |-> wakeCallbacks, live |-> TRUE, len |-> Len(wakeCallbacks), k |-> 0,
     incb |-> FALSE, snap |-> wakeCallbacks, got |-> <<>>,
     threw |-> FALSE, reent |-> FALSE]

Top == stack[Len(stack)]
SetTop(f) == [stack EXCEPT ![Len(stack)] = f]

(* The public methods are called by the application between events, or by the
   listener that is running. *)
CanCall == IF stack = <<>> THEN TRUE ELSE Top.incb
Idle == stack = <<>>

(* What the loop of notifyWakeEvent consults at each step: Array.prototype.forEach
   keeps the array object and the length it read when it started. *)
ForEachLive(f) == [arr |-> wakeCallbacks, len |-> Len(wakeCallbacks)]
ForEachArray(f) == [arr |-> f.arr, len |-> f.len]

(* The catch of notifyWakeEvent, when the running listener throws: the error is
   dropped and the loop goes on with the next listener. *)
UncaughtCallbackError == [stack |-> <<>>, propagated |-> TRUE]
CatchCallbackError ==
    [stack |-> SetTop([Top EXCEPT !.incb = FALSE, !.k = @ + 1, !.threw = TRUE]),
     propagated |-> propagated]

(* onWakeDetected: push onto the array this.wakeCallbacks refers to; a forEach
   that runs over the same object sees the element, beyond the length it read. *)
PushCallback(c) ==
    /\ wakeCallbacks' = Append(wakeCallbacks, c)
    /\ stack' = [i \in DOMAIN stack |->
                   [stack[i] EXCEPT !.reent = TRUE,
                                    !.arr = IF stack[i].live THEN Append(@, c) ELSE @]]

(* removeWakeCallback: this.wakeCallbacks becomes a new, filtered array; the
   forEach calls in progress keep the old object. *)
FilterCallbacks(c) ==
    /\ wakeCallbacks' = SelectSeq(wakeCallbacks, LAMBDA cb : cb # c)
    /\ stack' = [i \in DOMAIN stack |->
                   [stack[i] EXCEPT !.reent = TRUE, !.live = FALSE]]

(* handleScreenVisible(now), up to and including its call of notifyWakeEvent. *)
handleScreenVisible(t) ==
    IF lastVisibilityChange = NULL
    THEN /\ lastVisibilityChange' = t
         /\ UNCHANGED <<stack, localStorage>>
    ELSE LET inactiveMinutes == t - lastVisibilityChange
         IN  IF inactiveMinutes >= sleepThresholdMinutes
             THEN /\ stack' = <<NewFrame("visible",
                                         WakeEvent(t, calculateWakeConfidence(inactiveMinutes),
                                                   "visibility"),
                                         t, inactiveMinutes, NULL)>>
                  /\ UNCHANGED <<lastVisibilityChange, localStorage>>
             ELSE /\ lastVisibilityChange' = t
                  /\ UNCHANGED <<stack, localStorage>>

(* handleScreenVisible after notifyWakeEvent has returned, f being that call. *)
handleScreenVisibleRest(f) ==
    /\ localStorage' = storeSleepSession(lastVisibilityChange, f.at, f.d)
    /\ lastVisibilityChange' = f.at

handleScreenHidden(t) ==
    /\ lastVisibilityChange' = t
    /\ UNCHANGED <<stack, localStorage>>

handleUserInteractionStrict(t) ==
    IF lastVisibilityChange # NULL /\ t - lastVisibilityChange > sleepThresholdMinutes
    THEN stack' = <<NewFrame("interaction", WakeEvent(t, "medium", "user-interaction"),
                             t, t - lastVisibilityChange, NULL)>>
    ELSE UNCHANGED stack

handleUserInteraction(t) ==
    IF lastVisibilityChange # NULL /\ t - lastVisibilityChange >= sleepThresholdMinutes
    THEN stack' = <<NewFrame("interaction", WakeEvent(t, "medium", "user-interaction"),
                             t, t - lastVisibilityChange, NULL)>>
    ELSE UNCHANGED stack

----------------------------------------------------------------------------
(* An observer of the signals, for the properties that speak of what really
   happened: since when the document has been hidden (the start of its latest
   period in the background), since when monitoring has been active without
   interruption, the recorded transition the last WakeEvent was emitted for,
   and how many were emitted for it.  It watches the specifications that
   switch it on, and changes nothing of the program. *)
Unobserved ==
    [on |-> FALSE, hiddenSince |-> NULL, activeSince |-> NULL,
     interval |-> NULL, emitted |-> 0]

(* The NotificationService after construction with an empty store, before the
   user has been asked for the permission. *)
NoAlarms ==
    /\ heap = <<>>
    /\ alarms = <<>>
    /\ timeouts = <<>>
    /\ timers = {}
    /\ pending = <<>>
    /\ permission = "default"
    /\ shown = {}
    /\ cancelled = {}

(* What the observer notes at a signal: a transition to the background, and a
   WakeEvent, which is emitted when the handler calls notifyWakeEvent. *)
ObserveSignal ==
    observed' =
        IF ~observed.on THEN observed
        ELSE LET emits == stack' # stack
             IN  [on |-> TRUE,
                  hiddenSince |-> IF visibilityState' = "hidden"
                                     /\ visibilityState = "visible"
                                  THEN now' ELSE observed.hiddenSince,
                  activeSince |-> observed.activeSince,
                  interval |-> IF emits THEN lastVisibilityChange
                                        ELSE observed.interval,
                  emitted |-> IF ~emits THEN observed.emitted
                              ELSE IF observed.interval = lastVisibilityChange
                              THEN observed.emitted + 1
                              ELSE 1]

ObserveStart ==
    observed' =
        IF ~observed.on \/ isActive THEN observed
        ELSE [observed EXCEPT !.activeSince = now]

ObserveStop ==
    observed' =
        IF ~observed.on THEN observed
        ELSE [observed EXCEPT !.activeSince = NULL]

----------------------------------------------------------------------------
(* WakeDetectionService: the operations *)

Flip(v) == IF v = "visible" THEN "hidden" ELSE "visible"

Start ==
    /\ Idle
    /\ isActive' = TRUE
    /\ done' = <<>>
    /\ ObserveStart
    /\ UNCHANGED <<lastVisibilityChange, wakeCallbacks, visibilityState, now,
                   localStorage, stack, propagated, nops>>
    /\ UNCHANGED <<sig, debtVars, pureVars, alarmVars>>

Stop ==
    /\ Idle
    /\ isActive' = FALSE
    /\ done' = <<>>
    /\ ObserveStop
    /\ UNCHANGED <<lastVisibilityChange, wakeCallbacks, visibilityState, now,
                   localStorage, stack, propagated, nops>>
    /\ UNCHANGED <<sig, debtVars, pureVars, alarmVars>>

OnWakeDetected(c) ==
    /\ CanCall
    /\ Len(wakeCallbacks) < MaxCallbacks
    /\ PushCallback(c)
    /\ nops' = IF Idle THEN nops ELSE nops + 1
    /\ done' = <<>>
    /\ UNCHANGED <<isActive, lastVisibilityChange, visibilityState, now,
                   localStorage, propagated>>
    /\ UNCHANGED <<sig, debtVars, pureVars, observed, alarmVars>>

RemoveWakeCallback(c) ==
    /\ CanCall
    /\ FilterCallbacks(c)
    /\ nops' = IF Idle THEN nops ELSE nops + 1
    /\ done' = <<>>
    /\ UNCHANGED <<isActive, lastVisibilityChange, visibilityState, now,
                   localStorage, propagated>>
    /\ UNCHANGED <<sig, debtVars, pureVars, observed, alarmVars>>

(* The visibilitychange listener of setupVisibilityDetection. *)
VisibilityChange(delta) ==
    /\ Idle
    /\ nops' = nops + 1
    /\ now' = now + delta
    /\ visibilityState' = Flip(visibilityState)
    /\ sig' = "visibilitychange"
    /\ done' = <<>>
    /\ IF ~isActive
       THEN UNCHANGED <<lastVisibilityChange, stack, localStorage>>
       ELSE IF visibilityState' = "visible"
            THEN handleScreenVisible(now')
            ELSE handleScreenHidden(now')
    /\ UNCHANGED <<isActive, wakeCallbacks, propagated>>
    /\ UNCHANGED <<debtVars, pureVars, alarmVars>>
    /\ ObserveSignal

(* The mousedown / keydown / touchstart / focus listener of
   setupUserInteractionDetection. *)
UserInteraction(delta) ==
    /\ Idle
    /\ nops' = nops + 1
    /\ now' = now + delta
    /\ sig' = "interaction"
    /\ done' = <<>>
    /\ IF ~isActive
       THEN UNCHANGED stack
       ELSE handleUserInteraction(now')
    /\ UNCHANGED <<isActive, lastVisibilityChange, wakeCallbacks, visibilityState,
                   localStorage, propagated>>
    /\ UNCHANGED <<debtVars, pureVars, alarmVars>>
    /\ ObserveSignal

(* logManualSleep(bedtime, wakeTime, quality), up to and including its call of
   notifyWakeEvent, with wakeTime = now - ago and bedtime = wakeTime - dur. *)
LogManualSleep(ago, dur, quality) ==
    /\ CanCall
    /\ nops' = nops + 1
    /\ now' = now
    /\ LET wakeTime == now - ago
           bedtime == wakeTime - dur
           durationMinutes == wakeTime - bedtime
       IN  /\ localStorage' = storeSleepSession(bedtime, wakeTime, durationMinutes)
           /\ stack' = Append([i \in DOMAIN stack |-> [stack[i] EXCEPT !.reent = TRUE]],
                              NewFrame("manual", WakeEvent(wakeTime, "high", "manual"),
                                       wakeTime, durationMinutes, quality))
    /\ sig' = "logManualSleep"
    /\ done' = <<>>
    /\ UNCHANGED <<isActive, lastVisibilityChange, wakeCallbacks, visibilityState,
                   propagated>>
    /\ UNCHANGED <<debtVars, pureVars, observed, alarmVars>>

(* notifyWakeEvent: forEach calls the next listener. *)
InvokeCallback ==
    /\ stack # <<>>
    /\ ~Top.incb
    /\ Top.k < ForEachArray(Top).len
    /\ stack' = SetTop([Top EXCEPT !.incb = TRUE,
                                   !.got = Append(@, ForEachArray(Top).arr[Top.k + 1])])
    /\ done' = <<>>
    /\ UNCHANGED <<isActive, lastVisibilityChange, wakeCallbacks, visibilityState, now,
                   localStorage, propagated, nops>>
    /\ UNCHANGED <<sig, debtVars, pureVars, observed, alarmVars>>

(* The running listener returns. *)
CallbackReturns ==
    /\ stack # <<>>
    /\ Top.incb
    /\ stack' = SetTop([Top EXCEPT !.incb = FALSE, !.k = @ + 1])
    /\ done' = <<>>
    /\ UNCHANGED <<isActive, lastVisibilityChange, wakeCallbacks, visibilityState, now,
                   localStorage, propagated, nops>>
    /\ UNCHANGED <<sig, debtVars, pureVars, observed, alarmVars>>

(* The running listener throws. *)
CallbackThrows ==
    /\ stack # <<>>
    /\ Top.incb
    /\ stack' = CatchCallbackError.stack
    /\ propagated' = CatchCallbackError.propagated
    /\ done' = <<>>
    /\ UNCHANGED <<isActive, lastVisibilityChange, wakeCallbacks, visibilityState, now,
                   localStorage, nops>>
    /\ UNCHANGED <<sig, debtVars, pureVars, observed, alarmVars>>

(* notifyWakeEvent returns, and its caller runs to its end. *)
NotifyReturns ==
    /\ stack # <<>>
    /\ ~Top.incb
    /\ Top.k >= ForEachArray(Top).len
    /\ stack' = Front(stack)
    /\ done' = <<Top>>
    /\ now' = now
    /\ IF Top.kind = "visible"
       THEN handleScreenVisibleRest(Top)
       ELSE UNCHANGED <<lastVisibilityChange, localStorage>>
    /\ UNCHANGED <<isActive, wakeCallbacks, visibilityState, propagated, nops>>
    /\ UNCHANGED <<sig, debtVars, pureVars, observed, alarmVars>>

ManualAgo == {0, 31 * DAY}
ManualDuration == {450}
ManualQuality == {4}

Init ==
    /\ isActive = FALSE
    /\ lastVisibilityChange = NULL
    /\ wakeCallbacks = <<>>
    /\ visibilityState \in {"visible", "hidden"}
    /\ now = 0
    /\ localStorage = <<>>
    /\ stack = <<>>
    /\ done = <<>>
    /\ propagated = FALSE
    /\ sig = "init"
    /\ nops = 0
    /\ lastAdded = <<>>
    /\ lastInsert = NULL
    /\ debt = <<>>
    /\ input = <<>>
    /\ output = <<>>
    /\ observed = Unobserved
    /\ NoAlarms

(* The detector under its signals.  The application registers and removes
   listeners and logs sleep between the signals; a listener returns or throws. *)
Next ==
    \/ Start
    \/ Stop
    \/ \E c \in Callbacks : Idle /\ OnWakeDetected(c)
    \/ \E c \in Callbacks : Idle /\ RemoveWakeCallback(c)
    \/ \E delta \in Deltas : nops < MaxOps /\ VisibilityChange(delta)
    \/ \E delta \in Deltas : nops < MaxOps /\ UserInteraction(delta)
    \/ \E ago \in ManualAgo, dur \in ManualDuration, q \in ManualQuality :
          Idle /\ nops < MaxOps /\ LogManualSleep(ago, dur, q)
    \/ InvokeCallback
    \/ CallbackReturns
    \/ CallbackThrows
    \/ NotifyReturns

Spec == Init /\ [][Next]_vars

(* The detector with listeners that call back into it while they run. *)
NextNotify ==
    \/ Start
    \/ \E c \in Callbacks : (Idle \/ nops < MaxNotifyOps) /\ OnWakeDetected(c)
    \/ \E c \in Callbacks : (Idle \/ nops < MaxNotifyOps) /\ RemoveWakeCallback(c)
    \/ \E delta \in NotifyDeltas : nops < MaxNotifyOps /\ VisibilityChange(delta)
    \/ \E dur \in ManualDuration, q \in ManualQuality :
          nops < MaxNotifyOps /\ LogManualSleep(0, dur, q)
    \/ InvokeCallback
    \/ CallbackReturns
    \/ CallbackThrows
    \/ NotifyReturns

SpecNotify == Init /\ [][NextNotify]_vars

(* The detector without listeners, under every interleaving of start, stop and
   the signals, with the observer switched on. *)
MaxMonitorOps == 4   \* signals in one behaviour of SpecMonitor
MonitorDeltas == {90, 180}

InitMonitor ==
    /\ isActive = FALSE
    /\ lastVisibilityChange = NULL
    /\ wakeCallbacks = <<>>
    /\ visibilityState \in {"visible", "hidden"}
    /\ now = 0
    /\ localStorage = <<>>
    /\ stack = <<>>
    /\ done = <<>>
    /\ propagated = FALSE
    /\ sig = "init"
    /\ nops = 0
    /\ lastAdded = <<>>
    /\ lastInsert = NULL
    /\ debt = <<>>
    /\ input = <<>>
    /\ output = <<>>
    /\ observed = [on |-> TRUE,
                   hiddenSince |-> IF visibilityState = "hidden" THEN now ELSE NULL,
                   activeSince |-> NULL, interval |-> NULL, emitted |-> 0]
    /\ NoAlarms

NextMonitor ==
    \/ Start
    \/ Stop
    \/ \E delta \in MonitorDeltas : nops < MaxMonitorOps /\ VisibilityChange(delta)
    \/ \E delta \in MonitorDeltas : nops < MaxMonitorOps /\ UserInteraction(delta)
    \/ NotifyReturns

SpecMonitor == InitMonitor /\ [][NextMonitor]_vars

----------------------------------------------------------------------------
(* Sleep Debt Tracker (sleep-debt.ts) *)

(* date-fns, in a zone of fixed offset *)
startOfDay(t) == t - (t % DAY)
subDays(t, n) == t - n * DAY
addDays(t, n) == t + n * DAY

(* The members of a tracker SleepSession that the tracker reads or converts. *)
DebtSession(date, bedtime, wakeTime, actualSleepHours) ==
    [date |-> date, bedtime |-> bedtime, wakeTime |-> wakeTime,
     actualSleepHours |-> actualSleepHours]

DebtSessionToJSON(s) ==
    [date |-> DateToJSON(s.date), bedtime |-> DateToJSON(s.bedtime),
     wakeTime |-> DateToJSON(s.wakeTime), actualSleepHours |-> s.actualSleepHours]

DebtSessionFromJSON(j) ==
    [date |-> DateFromJSON(j.date), bedtime |-> DateFromJSON(j.bedtime),
     wakeTime |-> DateFromJSON(j.wakeTime), actualSleepHours |-> j.actualSleepHours]

getSleepSessions ==
    LET stored == getItem(SESSIONS_KEY)
    IN  [i \in 1..Len(stored) |-> DebtSessionFromJSON(stored[i])]

(* The store saveSleepSessions leaves. *)
saveSleepSessions(sessions) ==
    setItem(SESSIONS_KEY, [i \in 1..Len(sessions) |-> DebtSessionToJSON(sessions[i])])

(* Array.prototype.sort by date, ascending and stable: insertion from the left. *)
RECURSIVE InsertByDate(_, _)
InsertByDate(sorted, s) ==
    IF sorted = <<>> THEN <<s>>
    ELSE IF Last(sorted).date <= s.date THEN Append(sorted, s)
    ELSE Append(InsertByDate(Front(sorted), s), Last(sorted))

RECURSIVE SortByDate(_)
SortByDate(sessions) ==
    IF sessions = <<>> THEN <<>>
    ELSE InsertByDate(SortByDate(Front(sessions)), Last(sessions))

(* addSleepSession: the stored sessions without those of the new session's day. *)
KeepSameDay(sessions, session) == sessions
RemoveSameDay(sessions, session) ==
    SelectSeq(sessions, LAMBDA s : startOfDay(s.date) # startOfDay(session.date))

(* addSleepSession: the store it leaves.  new Date() is the clock. *)
addSleepSession(session) ==
    LET sessions == getSleepSessions
        filteredSessions == Append(RemoveSameDay(sessions, session), session)
        thirtyDaysAgo == subDays(now, DEBT_RETENTION_DAYS)
        recentSessions == SelectSeq(filteredSessions, LAMBDA s : s.date >= thirtyDaysAgo)
    IN  saveSleepSessions(SortByDate(recentSessions))

(* recentSessions.find(...) of calculateSleepDebt: the first session of the day of
   date, as a sequence of no or one element. *)
FindDaySession(recentSessions, date) ==
    LET hits == SelectSeq(recentSessions,
                          LAMBDA s : startOfDay(s.date) = startOfDay(date))
    IN  IF hits = <<>> THEN <<>> ELSE <<hits[1]>>

Max(a, b) == IF a >= b THEN a ELSE b

RECURSIVE Sum(_)
Sum(seq) == IF seq = <<>> THEN 0 ELSE Sum(Front(seq)) + Last(seq)

(* Math.round(x * 10) / 10 of x = n / m hundredths of an hour, in hundredths. *)
RoundToTenth(n, m) == 10 * MathRound(n, 10 * m)

(* calculateSleepDebt(sessions, settings) at the clock now; settings.optimalSleepDuration
   is NULL when the setting is absent.  Hours are exact, in hundredths. *)
calculateSleepDebt(sessions, settings) ==
    LET optimalSleepHours ==
            IF settings.optimalSleepDuration = NULL \/ settings.optimalSleepDuration = 0
            THEN DEFAULT_OPTIMAL_SLEEP * HOUR
            ELSE settings.optimalSleepDuration
        today == startOfDay(now)
        sevenDaysAgo == subDays(today, DEBT_DAYS)
        recentSessions ==
            SelectSeq(sessions, LAMBDA s : s.date >= sevenDaysAgo /\ s.date <= today)
        dayDeficit(i) ==
            LET daySession == FindDaySession(recentSessions, addDays(sevenDaysAgo, i))
            IN  IF daySession # <<>>
                THEN Max(0, optimalSleepHours - daySession[1].actualSleepHours)
                ELSE optimalSleepHours
        weeklyDeficits == [i \in 1..DEBT_DAYS |-> dayDeficit(i - 1)]
        totalDebt == Sum(weeklyDeficits)
        todays == SelectSeq([i \in 1..DEBT_DAYS |-> i - 1],
                            LAMBDA i : startOfDay(addDays(sevenDaysAgo, i)) = startOfDay(today))
        dailyDeficit == IF todays = <<>> THEN 0 ELSE dayDeficit(Last(todays))
    IN  [totalHours |-> RoundToTenth(totalDebt, 1),
         dailyDeficit |-> RoundToTenth(dailyDeficit, 1),
         weeklyAverage |-> RoundToTenth(Sum(weeklyDeficits), 7),
         optimalSleepHours |-> optimalSleepHours]

(* Inputs: the day and time of day of a session, counted back from today's
   midnight; the hours slept; the optimal-hours setting; the clock's advances. *)
SessionDaysAgo == {0, 1, 7, 31}
SessionTimeOfDay == {0, 7 * 60}
SleepHours == {625, 800, 900}
OptimalSettings == {NULL, 7 * HOUR}
DebtDeltas == {10 * 60, DAY, 31 * DAY}

AddSleepSession(daysAgo, timeOfDay, hours) ==
    /\ Idle
    /\ nops < MaxDebtOps
    /\ nops' = nops + 1
    /\ LET date == subDays(startOfDay(now), daysAgo) + timeOfDay
           session == DebtSession(date, date - 8 * 60, date, hours)
       IN  /\ localStorage' = addSleepSession(session)
           /\ lastAdded' = [d \in DOMAIN lastAdded \cup {startOfDay(date)} |->
                              IF d = startOfDay(date) THEN session ELSE lastAdded[d]]
    /\ lastInsert' = now
    /\ debt' = <<>>
    /\ UNCHANGED <<now, sig, wakeVars, pureVars, observed, alarmVars>>

(* Time passes. *)
DebtTick(delta) ==
    /\ Idle
    /\ nops < MaxDebtOps
    /\ nops' = nops + 1
    /\ now' = now + delta
    /\ debt' = <<>>
    /\ UNCHANGED <<localStorage, sig, lastAdded, lastInsert,
                   wakeVars, pureVars, observed, alarmVars>>

(* The energy dashboard: calculateSleepDebt(getSleepSessions(), settings). *)
CalculateSleepDebt(optimal) ==
    /\ Idle
    /\ debt' = <<calculateSleepDebt(getSleepSessions, [optimalSleepDuration |-> optimal])>>
    /\ UNCHANGED <<now, localStorage, sig, nops, lastAdded, lastInsert,
                   wakeVars, pureVars, observed, alarmVars>>

(* The tracker and the detector over one store. *)
NextDebt ==
    \/ \E daysAgo \in SessionDaysAgo, timeOfDay \in SessionTimeOfDay, hours \in SleepHours :
          AddSleepSession(daysAgo, timeOfDay, hours)
    \/ \E delta \in DebtDeltas : DebtTick(delta)
    \/ \E optimal \in OptimalSettings : CalculateSleepDebt(optimal)
    \/ \E dur \in ManualDuration, q \in ManualQuality :
          Idle /\ nops < MaxDebtOps /\ LogManualSleep(0, dur, q)
    \/ NotifyReturns

SpecDebt == Init /\ [][NextDebt]_vars

----------------------------------------------------------------------------
(* The sleep planner (src/src/lib/sleep.ts).

   The file holds the planner twice: the first copy has the simple and the
   enhanced mode and an onset buffer of 30 minutes, the second the simple mode
   only and an onset buffer of 15 minutes.  input.build says which copy runs.
   A number of hours is counted in hundredths of an hour (14.5 hours is 1450);
   the awake durations of the model are whole minutes.  date-fns adds a
   fractional amount of hours as amount x 3,600,000 milliseconds. *)

SLEEP_CYCLE_MINUTES == 90
FALL_ASLEEP_MINUTES == 30
FALL_ASLEEP_MINUTES_SIMPLE == 15
FIRST_CYCLES == 3
LAST_CYCLES == 6
maxAcceptableDiff == 60

Abs(n) == IF n >= 0 THEN n ELSE 0 - n

(* date-fns *)
(* An Invalid Date stays one. *)
addMinutes(date, amount) == IF date = NaN THEN NaN ELSE date + amount
subMinutes(date, amount) == IF date = NaN THEN NaN ELSE date - amount
addHours(date, amount) ==
    IF date = NaN THEN NaN ELSE date + (amount * 60) \div HOUR
(* a < b and a <= b of JavaScript: false when either side is NaN. *)
Less(a, b) == a # NaN /\ b # NaN /\ a < b
LessEq(a, b) == a # NaN /\ b # NaN /\ a <= b
(* Math.abs(a.getTime() - b.getTime()) *)
TimeDiff(a, b) == IF a = NaN \/ b = NaN THEN NaN ELSE Abs(a - b)
subHours(date, amount) == addHours(date, 0 - amount)

(* FALL_ASLEEP_MINUTES of the copy that runs. *)
FallAsleepMinutes ==
    IF input.build = 1 THEN FALL_ASLEEP_MINUTES ELSE FALL_ASLEEP_MINUTES_SIMPLE

(* minutes / 60, in hundredths of an hour *)
MinutesToHours(minutes) == (minutes * HOUR) \div 60

calculateBedtimeForCycles(wakeTime, cycles) ==
    LET sleepMinutes == cycles * SLEEP_CYCLE_MINUTES
        totalMinutes == sleepMinutes + FallAsleepMinutes
    IN  subMinutes(wakeTime, totalMinutes)

calculateWakeTimeFromBedtimeNoBuffer(bedtime, cycles) ==
    addMinutes(bedtime, cycles * SLEEP_CYCLE_MINUTES)

calculateWakeTimeFromBedtime(bedtime, cycles) ==
    LET sleepMinutes == cycles * SLEEP_CYCLE_MINUTES
        totalMinutes == sleepMinutes + FallAsleepMinutes
    IN  addMinutes(bedtime, totalMinutes)

(* The quality calculateOptimalBedtimes gives a cycle count. *)
CycleQualityLoose(cycles) ==
    IF cycles <= 3 THEN "short" ELSE IF cycles > 5 THEN "extended" ELSE "optimal"

CycleQuality(cycles) ==
    IF cycles <= 3 THEN "short" ELSE IF cycles >= 5 THEN "extended" ELSE "optimal"

(* The loop of calculateOptimalBedtimes from cycles on: what it pushes. *)
RECURSIVE RecommendedBedtimes(_, _)
RecommendedBedtimes(wakeTime, cycles) ==
    IF cycles > LAST_CYCLES THEN <<>>
    ELSE LET sleepMinutes == cycles * SLEEP_CYCLE_MINUTES
             totalMinutes == sleepMinutes + FallAsleepMinutes
         IN  <<[bedtime |-> subMinutes(wakeTime, totalMinutes),
                duration |-> MinutesToHours(sleepMinutes),
                cycles |-> cycles,
                quality |-> CycleQuality(cycles)]>>
             \o RecommendedBedtimes(wakeTime, cycles + 1)

calculateOptimalBedtimes(wakeTime) ==
    LET currentTime == now
        recommendedBedtimes == RecommendedBedtimes(wakeTime, FIRST_CYCLES)
        \* recommendedBedtimes.find(...): the first that satisfies, in a 0/1 sequence
        later == SelectSeq(recommendedBedtimes,
                           LAMBDA bt : Less(currentTime, bt.bedtime))
        nextBedtime == IF later = <<>> THEN <<>> ELSE <<later[1]>>
        timeUntilWake == wakeTime - currentTime
    IN  [wakeTime |-> wakeTime,
         recommendedBedtimes |-> recommendedBedtimes,
         currentTime |-> currentTime,
         timeUntilBedtime |-> IF nextBedtime # <<>>
                              THEN nextBedtime[1].bedtime - currentTime
                              ELSE NULL,
         timeUntilWake |-> IF wakeTime # NaN /\ timeUntilWake > 0
                           THEN timeUntilWake ELSE NULL]

(* The loop of calculateSleepOptionFromAwakeDuration from cycles on: what it pushes. *)
RECURSIVE PossibleWakeTimes(_, _)
PossibleWakeTimes(actualSleepTime, cycles) ==
    IF cycles > LAST_CYCLES THEN <<>>
    ELSE LET sleepDurationMinutes == cycles * SLEEP_CYCLE_MINUTES
         IN  <<[wakeTime |-> addMinutes(actualSleepTime, sleepDurationMinutes),
                cycles |-> cycles,
                duration |-> MinutesToHours(sleepDurationMinutes)]>>
             \o PossibleWakeTimes(actualSleepTime, cycles + 1)

(* possibleWakeTimes.reduce(...) without an initial value: the accumulator starts
   as the first element. *)
RECURSIVE ClosestWakeTimeLast(_, _)
ClosestWakeTimeLast(possibleWakeTimes, targetWakeTime) ==
    IF Len(possibleWakeTimes) = 1 THEN possibleWakeTimes[1]
    ELSE LET best == ClosestWakeTimeLast(Front(possibleWakeTimes), targetWakeTime)
             current == Last(possibleWakeTimes)
         IN  IF Abs(current.wakeTime - targetWakeTime)
                  <= Abs(best.wakeTime - targetWakeTime)
             THEN current ELSE best

RECURSIVE ClosestWakeTime(_, _)
ClosestWakeTime(possibleWakeTimes, targetWakeTime) ==
    IF Len(possibleWakeTimes) = 1 THEN possibleWakeTimes[1]
    ELSE LET best == ClosestWakeTime(Front(possibleWakeTimes), targetWakeTime)
             current == Last(possibleWakeTimes)
             currentDiff == TimeDiff(current.wakeTime, targetWakeTime)
             bestDiff == TimeDiff(best.wakeTime, targetWakeTime)
         IN  IF Less(currentDiff, bestDiff) THEN current ELSE best

(* Math.round(Math.max(0, 100 - (timeDiffMinutes / maxAcceptableDiff) * 100)) *)
MatchScoreUnclamped(timeDiffMinutes) ==
    MathRound(100 * maxAcceptableDiff - timeDiffMinutes * 100, maxAcceptableDiff)

MatchScore(timeDiffMinutes) ==
    IF timeDiffMinutes = NaN THEN NaN
    ELSE MathRound(Max(0, 100 * maxAcceptableDiff - timeDiffMinutes * 100),
                   maxAcceptableDiff)

calculateSleepOptionFromAwakeDuration(currentWakeTime, targetWakeTime, awakeHours, quality) ==
    LET bedtimeAlarm == addHours(currentWakeTime, awakeHours)
        actualSleepTime == addMinutes(bedtimeAlarm, FALL_ASLEEP_MINUTES)
        possibleWakeTimes == PossibleWakeTimes(actualSleepTime, FIRST_CYCLES)
        bestWakeTime == ClosestWakeTime(possibleWakeTimes, targetWakeTime)
        timeDiffMinutes == TimeDiff(bestWakeTime.wakeTime, targetWakeTime)
    IN  [bedtimeAlarm |-> bedtimeAlarm,
         actualSleepTime |-> actualSleepTime,
         calculatedWakeTime |-> bestWakeTime.wakeTime,
         actualSleepDuration |-> bestWakeTime.duration,
         cycles |-> bestWakeTime.cycles,
         awakeHours |-> awakeHours,
         quality |-> quality,
         matchScore |-> MatchScore(timeDiffMinutes)]

(* The awake durations calculateEnhancedSleepSchedule goes through. *)
StandardOptionsInclusive(customAwakeDuration) ==
    (IF customAwakeDuration # NULL /\ customAwakeDuration # 0
        /\ customAwakeDuration >= 1150 /\ customAwakeDuration <= 1450
     THEN <<[hours |-> customAwakeDuration, quality |-> "custom"]>> ELSE <<>>)
    \o <<[hours |-> 1450, quality |-> "short"],
         [hours |-> 1600, quality |-> "recommended"],
         [hours |-> 1800, quality |-> "extended"]>>

StandardOptions(customAwakeDuration) ==
    (IF customAwakeDuration # NULL /\ customAwakeDuration # 0
        /\ customAwakeDuration >= 1150 /\ customAwakeDuration < 1450
     THEN <<[hours |-> customAwakeDuration, quality |-> "custom"]>> ELSE <<>>)
    \o <<[hours |-> 1450, quality |-> "short"],
         [hours |-> 1600, quality |-> "recommended"],
         [hours |-> 1800, quality |-> "extended"]>>

(* sleepOptions.reduce(..., null): a 0/1 sequence, empty for null. *)
RECURSIVE BestMatchLast(_)
BestMatchLast(sleepOptions) ==
    IF sleepOptions = <<>> THEN <<>>
    ELSE LET best == BestMatchLast(Front(sleepOptions))
             current == Last(sleepOptions)
         IN  IF best = <<>> THEN <<current>>
             ELSE IF current.matchScore >= best[1].matchScore THEN <<current>> ELSE best

RECURSIVE BestMatch(_)
BestMatch(sleepOptions) ==
    IF sleepOptions = <<>> THEN <<>>
    ELSE LET best == BestMatch(Front(sleepOptions))
             current == Last(sleepOptions)
         IN  IF best = <<>> THEN <<current>>
             ELSE IF Less(best[1].matchScore, current.matchScore)
                  THEN <<current>> ELSE best

calculateEnhancedSleepSchedule(currentWakeTime, targetWakeTime, customAwakeDuration) ==
    LET standardOptions == StandardOptions(customAwakeDuration)
        sleepOptions ==
            [i \in 1..Len(standardOptions) |->
                calculateSleepOptionFromAwakeDuration(currentWakeTime, targetWakeTime,
                    standardOptions[i].hours, standardOptions[i].quality)]
    IN  [currentWakeTime |-> currentWakeTime,
         targetWakeTime |-> targetWakeTime,
         sleepOptions |-> sleepOptions,
         bestMatch |-> BestMatch(sleepOptions),
         customAwakeDuration |-> customAwakeDuration]

(* A time string is kept as the numbers of its two fields, <<HH, mm>>; a string
   that has not the two fields, as the empty string, is <<>>. *)
IsTimeString(timeString) ==
    /\ Len(timeString) = 2
    /\ timeString[1] \in 0..23
    /\ timeString[2] \in 0..59

(* parse(timeString, 'HH:mm', today): the day of today at that time, seconds and
   milliseconds zero; an Invalid Date, and no exception, for a string that does
   not match the format or has a field out of range. *)
parse(timeString, today) ==
    IF IsTimeString(timeString)
    THEN startOfDay(today) + timeString[1] * 60 + timeString[2]
    ELSE NaN

(* parseWakeTime.  The clock counts minutes; pastTheMinute says that its seconds
   or milliseconds are not zero, so that the time of the running minute is past. *)
parseWakeTime(timeString, pastTheMinute) ==
    LET today == now
        time == parse(timeString, today)
    IN  IF Less(time, today) \/ (time = today /\ pastTheMinute)
        THEN time + DAY
        ELSE time

(* The dashboard's step that makes the target wake time follow the current one. *)
TargetAfterCurrentStrict(targetWake, currentWake) ==
    IF targetWake < currentWake THEN targetWake + DAY ELSE targetWake

TargetAfterCurrent(targetWake, currentWake) ==
    IF LessEq(targetWake, currentWake) THEN targetWake + DAY ELSE targetWake

(* The dashboard's effect that plans the enhanced schedule: the calculation it
   stores, with the two parsed times. *)
enhancedScheduleEffect(currentWakeTime, targetWakeTime, customAwakeDuration, pastTheMinute) ==
    LET currentWake == parseWakeTime(currentWakeTime, pastTheMinute)
        parsedTarget == parseWakeTime(targetWakeTime, pastTheMinute)
        targetWake == TargetAfterCurrent(parsedTarget, currentWake)
    IN  [currentWake |-> currentWake,
         parsedTarget |-> parsedTarget,
         calculation |-> calculateEnhancedSleepSchedule(currentWake, targetWake,
                                                        customAwakeDuration)]

(* Inputs of the planner.  PlanBase is a local midnight. *)
PlanBase == 2 * DAY
PlanClocks == {PlanBase + 9 * 60 + 45, PlanBase + 22 * 60}
PlanWakeTimes == {PlanBase + 23 * 60 + 30, PlanBase + DAY + 7 * 60}
PlanCurrentWakeTimes == {PlanBase, PlanBase + 9 * 60 + 45}
PlanTargetWakeTimes ==
    {PlanBase + 9 * 60 + 45 + d : d \in {0 - 60, 0, 1110, 1215, 1260, 1275, 1400, 1700}}
CustomAwakeDurations == {NULL, 0, 1145, 1150, 1200, 1445, 1450}
TimeStrings == {<<4, 15>>, <<9, 45>>, <<23, 30>>}
(* '', '24:00' and '09:60' *)
InvalidTimeStrings == {<<>>, <<24, 0>>, <<9, 60>>}
Cycles == FIRST_CYCLES..LAST_CYCLES

(* No part of the application but the pure functions is in use. *)
NoService ==
    /\ isActive = FALSE
    /\ lastVisibilityChange = NULL
    /\ wakeCallbacks = <<>>
    /\ visibilityState = "visible"
    /\ localStorage = <<>>
    /\ stack = <<>>
    /\ done = <<>>
    /\ propagated = FALSE
    /\ sig = "init"
    /\ nops = 0
    /\ lastAdded = <<>>
    /\ lastInsert = NULL
    /\ debt = <<>>
    /\ observed = Unobserved
    /\ NoAlarms

InitSleep ==
    /\ NoService
    /\ now \in PlanClocks
    /\ input \in [build : {1, 2},
                  wakeTime : PlanWakeTimes,
                  currentWakeTime : PlanCurrentWakeTimes,
                  targetWakeTime : PlanTargetWakeTimes]
    /\ output = <<>>

(* A call of a pure function changes nothing but what holds its value. *)
Returns(call) ==
    /\ output' = <<call>>
    /\ UNCHANGED <<now, localStorage, sig, nops, wakeVars, debtVars, input,
                   observed, alarmVars>>

CalculateBedtimeForCycles(cycles) ==
    Returns([fn |-> "calculateBedtimeForCycles",
             wakeTime |-> input.wakeTime,
             cycles |-> cycles,
             value |-> calculateBedtimeForCycles(input.wakeTime, cycles)])

(* calculateWakeTimeFromBedtime applied to the bedtime the last call returned. *)
CalculateWakeTimeFromBedtime(cycles) ==
    /\ output # <<>>
    /\ output[1].fn = "calculateBedtimeForCycles"
    /\ Returns([fn |-> "calculateWakeTimeFromBedtime",
                bedtime |-> output[1].value,
                cycles |-> cycles,
                from |-> output[1],
                value |-> calculateWakeTimeFromBedtime(output[1].value, cycles)])

CalculateOptimalBedtimes ==
    Returns([fn |-> "calculateOptimalBedtimes",
             wakeTime |-> input.wakeTime,
             value |-> calculateOptimalBedtimes(input.wakeTime)])

CalculateEnhancedSleepSchedule(customAwakeDuration) ==
    /\ input.build = 1
    /\ Returns([fn |-> "calculateEnhancedSleepSchedule",
                value |-> calculateEnhancedSleepSchedule(input.currentWakeTime,
                              input.targetWakeTime, customAwakeDuration)])

EnhancedScheduleEffect(currentWakeTime, targetWakeTime, customAwakeDuration, pastTheMinute) ==
    /\ input.build = 1
    /\ currentWakeTime # <<>>
    /\ targetWakeTime # <<>>
    /\ Returns([fn |-> "enhancedScheduleEffect",
                value |-> enhancedScheduleEffect(currentWakeTime, targetWakeTime,
                              customAwakeDuration, pastTheMinute)])

NextSleep ==
    \/ \E cycles \in Cycles : CalculateBedtimeForCycles(cycles)
    \/ \E cycles \in Cycles : CalculateWakeTimeFromBedtime(cycles)
    \/ CalculateOptimalBedtimes
    \/ \E custom \in CustomAwakeDurations : CalculateEnhancedSleepSchedule(custom)
    \/ \E c \in TimeStrings, t \in TimeStrings, custom \in {NULL, 1200},
          pastTheMinute \in BOOLEAN :
          EnhancedScheduleEffect(c, t, custom, pastTheMinute)

SpecSleep == InitSleep /\ [][NextSleep]_vars

(* The wake time the user types: parseWakeTime, and the two places of the
   dashboards that plan with what it returns. *)
ParseWakeTime(timeString, pastTheMinute) ==
    Returns([fn |-> "parseWakeTime",
             timeString |-> timeString,
             value |-> parseWakeTime(timeString, pastTheMinute)])

SleepCalculationRender(wakeTime, pastTheMinute) ==
    LET targetWakeTime == parseWakeTime(wakeTime, pastTheMinute)
    IN  Returns([fn |-> "sleepCalculation",
                 timeString |-> wakeTime,
                 targetWakeTime |-> targetWakeTime,
                 value |-> calculateOptimalBedtimes(targetWakeTime)])

NextParse ==
    \/ \E timeString \in TimeStrings \cup InvalidTimeStrings,
          pastTheMinute \in BOOLEAN :
          ParseWakeTime(timeString, pastTheMinute)
    \/ \E wakeTime \in TimeStrings \cup InvalidTimeStrings,
          pastTheMinute \in BOOLEAN :
          SleepCalculationRender(wakeTime, pastTheMinute)
    \/ \E c \in TimeStrings \cup InvalidTimeStrings,
          t \in TimeStrings \cup InvalidTimeStrings,
          pastTheMinute \in BOOLEAN :
          EnhancedScheduleEffect(c, t, NULL, pastTheMinute)

SpecParse == InitSleep /\ [][NextParse]_vars

----------------------------------------------------------------------------
(* Sleep debt: severity and recovery (src/src/lib/sleep-debt.ts).  A debt is
   counted in hundredths of an hour. *)

(* Math.ceil of the quotient n / m, for n >= 0 and m > 0. *)
MathFloorDiv(n, m) == n \div m
MathCeil(n, m) == (n + m - 1) \div m

getSleepDebtSeverityExclusive(debtHours) ==
    IF debtHours < 1 * HOUR
    THEN [level |-> "none", description |-> "Well rested", color |-> "green"]
    ELSE IF debtHours < 3 * HOUR
    THEN [level |-> "mild", description |-> "Slightly tired", color |-> "yellow"]
    ELSE IF debtHours < 6 * HOUR
    THEN [level |-> "moderate", description |-> "Noticeably tired", color |-> "orange"]
    ELSE IF debtHours < 10 * HOUR
    THEN [level |-> "severe", description |-> "Very tired", color |-> "red"]
    ELSE [level |-> "extreme", description |-> "Exhausted", color |-> "red"]

getSleepDebtSeverity(debtHours) ==
    IF debtHours <= 1 * HOUR
    THEN [level |-> "none", description |-> "Well rested", color |-> "green"]
    ELSE IF debtHours <= 3 * HOUR
    THEN [level |-> "mild", description |-> "Slightly tired", color |-> "yellow"]
    ELSE IF debtHours <= 6 * HOUR
    THEN [level |-> "moderate", description |-> "Noticeably tired", color |-> "orange"]
    ELSE IF debtHours <= 10 * HOUR
    THEN [level |-> "severe", description |-> "Very tired", color |-> "red"]
    ELSE [level |-> "extreme", description |-> "Exhausted", color |-> "red"]

(* dailyExtra is NULL when the caller leaves the argument out. *)
getSleepDebtRecoveryFloor(currentDebt, dailyExtra) ==
    LET extra == IF dailyExtra = NULL THEN 1 * HOUR ELSE dailyExtra
    IN  IF currentDebt <= 0
        THEN [daysToRecover |-> 0, recoveryDate |-> now]
        ELSE [daysToRecover |-> MathFloorDiv(currentDebt, extra),
              recoveryDate |-> addDays(now, MathFloorDiv(currentDebt, extra))]

getSleepDebtRecovery(currentDebt, dailyExtra) ==
    LET extra == IF dailyExtra = NULL THEN 1 * HOUR ELSE dailyExtra
    IN  IF currentDebt <= 0
        THEN [daysToRecover |-> 0, recoveryDate |-> now]
        ELSE LET daysToRecover == MathCeil(currentDebt, extra)
                 recoveryDate == addDays(now, daysToRecover)
             IN  [daysToRecover |-> daysToRecover, recoveryDate |-> recoveryDate]

----------------------------------------------------------------------------
(* The circadian phase of the sun (src/src/lib/circadian.ts) *)

getCurrentSunPhase(circadianData) ==
    LET currentMs == now
        To(phase, transition) ==
            [phase |-> phase, nextTransition |-> transition,
             timeToNext |-> transition - currentMs]
    IN  IF currentMs < circadianData.nauticalDawn
        THEN To("night", circadianData.nauticalDawn)
        ELSE IF currentMs < circadianData.sunrise
        THEN To("dawn", circadianData.sunrise)
        ELSE IF currentMs < circadianData.sunset
        THEN To("day", circadianData.sunset)
        ELSE IF currentMs < circadianData.nauticalDusk
        THEN To("dusk", circadianData.nauticalDusk)
        ELSE To("night", circadianData.nauticalDawn)

----------------------------------------------------------------------------
(* Energy (src/src/lib/energy-tracking.ts).

   An energy level before rounding is counted in units of 1 / EnergyScale, a
   confidence in hundredths.  Math.sin is tabulated to four decimals at the
   multiples of 3 degrees, which are the angles the curves take when the
   clock is at a full or a half hour; the clocks of the model are such. *)

EnergyScale == 6000
MIN_ENERGY == 5
MAX_ENERGY == 100
MAX_DEBT_PENALTY == 40
CONSISTENCY_BONUS == 10
FORECAST_HOURS == 24

Min(a, b) == IF a <= b THEN a ELSE b

(* 10000 x sin of 0, 3, ..., 90 degrees *)
SinTable ==
    <<0, 523, 1045, 1564, 2079, 2588, 3090, 3584, 4067, 4540, 5000, 5446, 5878,
      6293, 6691, 7071, 7431, 7771, 8090, 8387, 8660, 8910, 9135, 9336, 9511,
      9659, 9781, 9877, 9945, 9986, 10000>>

(* 10000 x Math.sin of degrees, a multiple of 3 *)
Sin(degrees) ==
    LET a == degrees % 360
    IN  IF a <= 90 THEN SinTable[a \div 3 + 1]
        ELSE IF a <= 180 THEN SinTable[(180 - a) \div 3 + 1]
        ELSE IF a <= 270 THEN 0 - SinTable[(a - 180) \div 3 + 1]
        ELSE 0 - SinTable[(360 - a) \div 3 + 1]

(* amplitude x Math.sin(((timeDecimal - fromHour) * Math.PI) / hours), in energy
   units; minutes is 60 x timeDecimal. *)
SineTerm(minutes, fromHour, hours, amplitude) ==
    (Sin(((minutes - 60 * fromHour) * 3) \div hours) * amplitude * EnergyScale) \div 10000

(* currentTime.getHours() * 60 + currentTime.getMinutes() *)
MinutesOfDay(currentTime) == currentTime % DAY

getCircadianEnergyLevel(sunPhase, currentTime, circadianData) ==
    LET minutes == MinutesOfDay(currentTime)
    IN  CASE sunPhase = "night" ->
               10 * EnergyScale + SineTerm(minutes, 22, 10, 10)
          [] sunPhase = "dawn" ->
               30 * EnergyScale + ((minutes - 5 * 60) * 40 * EnergyScale) \div (2 * 60)
          [] sunPhase = "day" ->
               IF minutes < 12 * 60
               THEN 70 * EnergyScale + SineTerm(minutes, 6, 6, 20)
               ELSE IF minutes < 15 * 60
               THEN 75 * EnergyScale - SineTerm(minutes, 12, 3, 15)
               ELSE 65 * EnergyScale + SineTerm(minutes, 15, 3, 15)
          [] sunPhase = "dusk" ->
               80 * EnergyScale - ((minutes - 17 * 60) * 30 * EnergyScale) \div (3 * 60)
          [] OTHER -> 50 * EnergyScale

(* Math.min(40, hours * 5) for a debt in hundredths of an hour *)
DebtPenalty(hours) ==
    Min(MAX_DEBT_PENALTY * EnergyScale, (hours * 5 * EnergyScale) \div HOUR)

(* Math.max(5, Math.min(100, energy)) *)
ClampEnergyNoFloor(energy) == Min(MAX_ENERGY * EnergyScale, energy)
ClampEnergy(energy) ==
    Max(MIN_ENERGY * EnergyScale, Min(MAX_ENERGY * EnergyScale, energy))

EnergyPhase(energyLevel) ==
    IF energyLevel >= 80 * EnergyScale THEN "peak"
    ELSE IF energyLevel >= 60 * EnergyScale THEN "moderate"
    ELSE IF energyLevel >= 30 * EnergyScale THEN "low"
    ELSE "crash"

calculateConfidence(sleepDebt, settings) ==
    LET base == 80
        afterDebt == IF sleepDebt.totalHours > 5 * HOUR THEN base - 20 ELSE base
        dataAge == now - sleepDebt.lastUpdated
        afterAge == IF dataAge < 12 * 60 THEN afterDebt + 10 ELSE afterDebt
    IN  Max(30, Min(100, afterAge))

calculateCurrentEnergyLevel(circadianData, sleepDebt, settings) ==
    LET sunPhase == getCurrentSunPhase(circadianData)
        baseEnergy == getCircadianEnergyLevel(sunPhase.phase, now, circadianData)
        debtPenalty == DebtPenalty(sleepDebt.totalHours)
        consistencyBonus == IF sleepDebt.weeklyAverage < 1 * HOUR
                            THEN CONSISTENCY_BONUS * EnergyScale ELSE 0
        energyLevel == ClampEnergy(baseEnergy - debtPenalty + consistencyBonus)
    IN  [timestamp |-> now,
         level |-> MathRound(energyLevel, EnergyScale),
         phase |-> EnergyPhase(energyLevel),
         confidence |-> calculateConfidence(sleepDebt, settings)]

(* The entry generateEnergyForecast pushes for the offset i. *)
ForecastEntryFromEight(circadianData, sleepDebt, i) ==
    LET futureTime == addHours(now, i * HOUR)
        futureSunPhase == getCurrentSunPhase(circadianData)
        baseEnergy == getCircadianEnergyLevel(futureSunPhase.phase, futureTime,
                                              circadianData)
        adjustedDebt == IF i >= 8 /\ i <= 16
                        THEN Max(0, sleepDebt.totalHours - 8 * HOUR)
                        ELSE sleepDebt.totalHours
        debtPenalty == DebtPenalty(adjustedDebt)
        energyLevel == ClampEnergy(baseEnergy - debtPenalty)
    IN  [timestamp |-> futureTime,
         level |-> MathRound(energyLevel, EnergyScale),
         phase |-> EnergyPhase(energyLevel),
         confidence |-> 70 - i * 2]

ForecastEntry(circadianData, sleepDebt, i) ==
    LET futureTime == addHours(now, i * HOUR)
        futureSunPhase == getCurrentSunPhase(circadianData)
        baseEnergy == getCircadianEnergyLevel(futureSunPhase.phase, futureTime,
                                              circadianData)
        adjustedDebt == IF i > 8 /\ i < 16
                        THEN Max(0, sleepDebt.totalHours - 8 * HOUR)
                        ELSE sleepDebt.totalHours
        debtPenalty == DebtPenalty(adjustedDebt)
        energyLevel == ClampEnergy(baseEnergy - debtPenalty)
    IN  [timestamp |-> futureTime,
         level |-> MathRound(energyLevel, EnergyScale),
         phase |-> EnergyPhase(energyLevel),
         confidence |-> 70 - i * 2]

generateEnergyForecast(circadianData, sleepDebt, settings) ==
    [k \in 1..FORECAST_HOURS |-> ForecastEntry(circadianData, sleepDebt, k - 1)]

(* getCurrentCircadianPhase: the phase of the hour of the day, with its
   recommendations. *)
getCurrentCircadianPhase(circadianData, currentEnergy) ==
    LET hour == MinutesOfDay(now) \div 60
    IN  IF hour >= 6 /\ hour < 10
        THEN [phase |-> "morning-rise", energyTrend |-> "rising",
              recommendations |-> <<"Get natural light exposure",
                                    "Light exercise or stretching",
                                    "Hydrate well">>]
        ELSE IF hour >= 10 /\ hour < 12
        THEN [phase |-> "morning-peak", energyTrend |-> "stable",
              recommendations |-> <<"Tackle complex tasks",
                                    "Important meetings",
                                    "Creative work">>]
        ELSE IF hour >= 13 /\ hour < 15
        THEN [phase |-> "afternoon-dip", energyTrend |-> "falling",
              recommendations |-> <<"Take a short break",
                                    "Light snack if needed",
                                    "Avoid important decisions">>]
        ELSE IF hour >= 15 /\ hour < 18
        THEN [phase |-> "evening-peak", energyTrend |-> "rising",
              recommendations |-> <<"Physical exercise",
                                    "Social activities",
                                    "Finish important tasks">>]
        ELSE IF hour >= 18 /\ hour < 22
        THEN [phase |-> "wind-down", energyTrend |-> "falling",
              recommendations |-> <<"Dim the lights",
                                    "Avoid screens",
                                    "Relaxing activities">>]
        ELSE [phase |-> "deep-sleep", energyTrend |-> "stable",
              recommendations |-> <<"Sleep in dark, cool room",
                                    "No screens or stimulation",
                                    "Consistent sleep schedule">>]

(* differenceInMinutes(dateLeft, new Date()), which truncates; elapsed says that
   the clock has moved on, by less than a minute, since dateRight was read. *)
differenceInMinutes(dateLeft, dateRight, elapsed) ==
    IF elapsed /\ dateLeft > dateRight
    THEN dateLeft - dateRight - 1
    ELSE dateLeft - dateRight

(* The sleep-debt warning of generateEnergyInsights, in a 0/1 sequence. *)
DebtWarningAlsoExtreme(sleepDebt) ==
    LET debtSeverity == getSleepDebtSeverity(sleepDebt.totalHours)
    IN  IF debtSeverity.level \in {"moderate", "severe", "extreme"}
        THEN <<[id |-> "sleep-debt-warning", type |-> "warning",
                about |-> sleepDebt.totalHours, actionable |-> TRUE,
                priority |-> IF debtSeverity.level = "severe" THEN 9 ELSE 7]>>
        ELSE <<>>

DebtWarning(sleepDebt) ==
    LET debtSeverity == getSleepDebtSeverity(sleepDebt.totalHours)
    IN  IF debtSeverity.level = "moderate" \/ debtSeverity.level = "severe"
        THEN <<[id |-> "sleep-debt-warning", type |-> "warning",
                about |-> sleepDebt.totalHours, actionable |-> TRUE,
                priority |-> IF debtSeverity.level = "severe" THEN 9 ELSE 7]>>
        ELSE <<>>

(* insights.sort((a, b) => b.priority - a.priority): stable, highest first. *)
RECURSIVE SortByPriority(_)
SortByPriority(insights) ==
    IF insights = <<>> THEN <<>>
    ELSE LET sorted == SortByPriority(Front(insights))
             insight == Last(insights)
         IN  SelectSeq(sorted, LAMBDA a : a.priority >= insight.priority)
             \o <<insight>>
             \o SelectSeq(sorted, LAMBDA a : a.priority < insight.priority)

generateEnergyInsights(sleepDebt, currentEnergy, circadianPhase, forecast, elapsed) ==
    LET peaks == SelectSeq(forecast, LAMBDA f : f.phase = "peak")
        lows == SelectSeq(forecast, LAMBDA f : f.phase = "low" \/ f.phase = "crash")
        insights ==
            DebtWarning(sleepDebt)
            \o (IF peaks # <<>>
                    /\ differenceInMinutes(peaks[1].timestamp, now, elapsed) < 120
                 THEN <<[id |-> "upcoming-peak", type |-> "success",
                         about |-> peaks[1].timestamp, actionable |-> FALSE,
                         priority |-> 6]>>
                 ELSE <<>>)
            \o (IF lows # <<>>
                    /\ differenceInMinutes(lows[1].timestamp, now, elapsed) < 60
                 THEN <<[id |-> "upcoming-dip", type |-> "info",
                         about |-> lows[1].timestamp, actionable |-> FALSE,
                         priority |-> 5]>>
                 ELSE <<>>)
            \o (IF Len(circadianPhase.recommendations) > 0
                 THEN <<[id |-> "phase-recommendation", type |-> "tip",
                         about |-> circadianPhase.phase, actionable |-> FALSE,
                         priority |-> 4]>>
                 ELSE <<>>)
    IN  SortByPriority(insights)

(* Inputs of the energy functions.  The sun's times of the day that starts at
   midnight, as suncalc gives them for some place; the dashboard keeps the data
   it computed when it was opened, today or the day before. *)
SunTimes(midnight) ==
    [nauticalDawn |-> midnight + 5 * 60,
     sunrise |-> midnight + 6 * 60 + 30,
     sunset |-> midnight + 19 * 60,
     nauticalDusk |-> midnight + 20 * 60 + 30]

(* getCircadianData: the sun's times and the two windows derived from them. *)
CircadianDay(midnight) ==
    LET times == SunTimes(midnight) IN
    [nauticalDawn |-> times.nauticalDawn,
     sunrise |-> times.sunrise,
     sunset |-> times.sunset,
     nauticalDusk |-> times.nauticalDusk,
     optimalSleepWindow |-> [start |-> addHours(times.sunset, 2 * HOUR),
                             end |-> addHours(times.sunset, 4 * HOUR)],
     optimalWakeWindow |-> [start |-> subHours(times.sunrise, HOUR \div 2),
                            end |-> addHours(times.sunrise, 1 * HOUR)]]

CircadianDatas == {CircadianDay(PlanBase), CircadianDay(PlanBase - DAY)}
EnergyClocks == {PlanBase + 30 * k : k \in 0..47}
DebtHours == {0, 10, 100, 101, 300, 301, 600, 601, 1000, 1001}
WeeklyAverages == {90, 100}
LastUpdates == {PlanBase - DAY, PlanBase}
DailyExtras == {NULL, 50, 100, 150}

InitEnergy ==
    /\ NoService
    /\ now \in EnergyClocks
    /\ input \in [circadianData : CircadianDatas,
                  sleepDebt : [totalHours : DebtHours,
                               weeklyAverage : WeeklyAverages,
                               lastUpdated : LastUpdates]]
    /\ output = <<>>

GetSleepDebtSeverity ==
    Returns([fn |-> "getSleepDebtSeverity",
             debtHours |-> input.sleepDebt.totalHours,
             value |-> getSleepDebtSeverity(input.sleepDebt.totalHours)])

GetSleepDebtRecovery(dailyExtra) ==
    Returns([fn |-> "getSleepDebtRecovery",
             currentDebt |-> input.sleepDebt.totalHours,
             dailyExtra |-> dailyExtra,
             value |-> getSleepDebtRecovery(input.sleepDebt.totalHours, dailyExtra)])

CalculateCurrentEnergyLevel ==
    Returns([fn |-> "calculateCurrentEnergyLevel",
             value |-> calculateCurrentEnergyLevel(input.circadianData,
                                                   input.sleepDebt, <<>>)])

GenerateEnergyForecast ==
    Returns([fn |-> "generateEnergyForecast",
             value |-> generateEnergyForecast(input.circadianData,
                                              input.sleepDebt, <<>>)])

GetCurrentSunPhase ==
    Returns([fn |-> "getCurrentSunPhase",
             value |-> getCurrentSunPhase(input.circadianData)])

(* The insights as the energy dashboard asks for them. *)
GenerateEnergyInsights(elapsed) ==
    LET currentLevel == calculateCurrentEnergyLevel(input.circadianData,
                                                    input.sleepDebt, <<>>)
        hourlyForecast == generateEnergyForecast(input.circadianData,
                                                 input.sleepDebt, <<>>)
        phase == getCurrentCircadianPhase(input.circadianData, currentLevel)
    IN  Returns([fn |-> "generateEnergyInsights",
                 value |-> generateEnergyInsights(input.sleepDebt, currentLevel,
                                                  phase, hourlyForecast, elapsed)])

NextEnergy ==
    \/ GetSleepDebtSeverity
    \/ \E elapsed \in BOOLEAN : GenerateEnergyInsights(elapsed)
    \/ GetCurrentSunPhase
    \/ \E dailyExtra \in DailyExtras : GetSleepDebtRecovery(dailyExtra)
    \/ CalculateCurrentEnergyLevel
    \/ GenerateEnergyForecast

SpecEnergy == InitEnergy /\ [][NextEnergy]_vars

----------------------------------------------------------------------------
(* The circadian alignment of a sleep schedule (circadian.ts) *)

(* calculateTimeWindowAlignment without the clamp at 0. *)
calculateTimeWindowAlignmentUnclamped(time, windowStart, windowEnd) ==
    IF time >= windowStart /\ time <= windowEnd THEN 100
    ELSE LET windowDuration == windowEnd - windowStart
             maxDeviation == windowDuration * 2
             deviation == IF time < windowStart THEN windowStart - time
                                                ELSE time - windowEnd
         IN  IF maxDeviation = 0 THEN 0
             ELSE MathRound(100 * maxDeviation - 100 * deviation, maxDeviation)

(* calculateTimeWindowAlignment: 100 inside the window; outside,
   Math.round(Math.max(0, 100 - deviation / maxDeviation * 100)).  With a window
   of no duration the quotient is Infinity and the maximum is 0. *)
calculateTimeWindowAlignment(time, windowStart, windowEnd) ==
    IF time >= windowStart /\ time <= windowEnd THEN 100
    ELSE LET windowDuration == windowEnd - windowStart
             maxDeviation == windowDuration * 2
             deviation == IF time < windowStart THEN windowStart - time
                                                ELSE time - windowEnd
         IN  IF maxDeviation = 0 THEN 0
             ELSE MathRound(Max(0, 100 * maxDeviation - 100 * deviation),
                            maxDeviation)

(* calculateCircadianAlignment.  overallAlignment is in hundredths; a
   recommendation is kept as its kind and the window it names. *)
calculateCircadianAlignment(bedtime, wakeTime, circadianData) ==
    LET sleepAlignment ==
            calculateTimeWindowAlignment(bedtime,
                                         circadianData.optimalSleepWindow.start,
                                         circadianData.optimalSleepWindow.end)
        wakeAlignment ==
            calculateTimeWindowAlignment(wakeTime,
                                         circadianData.optimalWakeWindow.start,
                                         circadianData.optimalWakeWindow.end)
        overallAlignment == ((sleepAlignment + wakeAlignment) * HOUR) \div 2
    IN  [sleepAlignment |-> sleepAlignment,
         wakeAlignment |-> wakeAlignment,
         overallAlignment |-> overallAlignment,
         recommendations |->
             (IF sleepAlignment < 70
                THEN <<[kind |-> "bedtime",
                        window |-> circadianData.optimalSleepWindow]>>
                ELSE <<>>)
             \o (IF wakeAlignment < 70
                   THEN <<[kind |-> "wake",
                           window |-> circadianData.optimalWakeWindow]>>
                   ELSE <<>>)
             \o (IF overallAlignment >= 80 * HOUR
                   THEN <<[kind |-> "aligned", window |-> NULL]>>
                   ELSE <<>>)]

(* Bedtimes and wake times around the windows of the day that starts at
   PlanBase: 21:00-23:00 for sleep and 06:00-07:30 for waking. *)
AlignBedtimes ==
    {PlanBase + m : m \in {600, 1019, 1020, 1140, 1200, 1259, 1260, 1300, 1380,
                           1381, 1440, 1500, 1619, 1620, 1700}}
AlignWakeTimes ==
    {PlanBase + m : m \in {100, 180, 270, 315, 359, 360, 400, 450, 451, 495,
                           540, 629, 630, 700}}

InitCircadian ==
    /\ NoService
    /\ now = PlanBase + 12 * 60
    /\ input \in [circadianData : CircadianDatas]
    /\ output = <<>>

CalculateCircadianAlignment(bedtime, wakeTime) ==
    Returns([fn |-> "calculateCircadianAlignment",
             bedtime |-> bedtime,
             wakeTime |-> wakeTime,
             value |-> calculateCircadianAlignment(bedtime, wakeTime,
                                                   input.circadianData)])

NextCircadian ==
    \E bedtime \in AlignBedtimes, wakeTime \in AlignWakeTimes :
        CalculateCircadianAlignment(bedtime, wakeTime)

SpecCircadian == InitCircadian /\ [][NextCircadian]_vars

----------------------------------------------------------------------------
(* NotificationService (src/src/lib/energy-tracking.ts).  An AlarmOptions object
   is kept in heap under its reference, with the members the service reads;
   alarms holds the references in the insertion order of the Map, timeouts maps
   an alarm id to the handle setTimeout returned, and timers are the timers the
   browser still holds, each with the object its callback closes over.  An
   async scheduleAlarm that awaits the permission is in pending until the
   prompt is answered. *)

ALARMS_KEY == "cyrcdian-alarms"
AlarmIds == {"bedtime-reminder", "wake-alarm"}
MaxAlarmOps == 3     \* calls of the service in one behaviour of SpecAlarm
AlarmDelays == {0 - 30, 60}   \* minutes from now to the time of a new alarm

AlarmToJSON(alarm) ==
    [id |-> alarm.id, time |-> DateToJSON(alarm.time), isEnabled |-> alarm.isEnabled]

(* saveAlarms: the store it leaves for the Map alarmRefs over the objects h. *)
saveAlarms(alarmRefs, h) ==
    setItem(ALARMS_KEY, [i \in 1..Len(alarmRefs) |-> AlarmToJSON(h[alarmRefs[i]])])

(* this.alarms.get(id): the reference, or undefined. *)
alarmsGet(id) ==
    LET found == SelectSeq(alarms, LAMBDA ref : heap[ref].id = id)
    IN  IF found = <<>> THEN NULL ELSE found[1]

(* The maps and the timers as the service holds them. *)
Service == [alarms |-> alarms, timeouts |-> timeouts, timers |-> timers]

(* clearTimeout(this.timeouts.get(id)) and this.timeouts.delete(id), if there is
   one. *)
clearTimer(svc, id) ==
    IF id \in DOMAIN svc.timeouts
    THEN [svc EXCEPT
            !.timers = {t \in svc.timers : t.handle # svc.timeouts[id]},
            !.timeouts = [i \in DOMAIN svc.timeouts \ {id} |-> svc.timeouts[i]]]
    ELSE svc

(* cancelAlarm(id) *)
cancelAlarm(svc, h, id) ==
    LET cleared == clearTimer(svc, id)
    IN  [cleared EXCEPT
            !.alarms = SelectSeq(cleared.alarms, LAMBDA ref : h[ref].id # id)]

(* The handle of a new timer. *)
NewHandle(svc) ==
    LET used == {t.handle : t \in svc.timers}
                \cup {svc.timeouts[i] : i \in DOMAIN svc.timeouts}
    IN  CHOOSE n \in 1..(Cardinality(used) + 1) : n \notin used

(* scheduleAlarm(options) once the permission is granted: the existing alarm of
   the id is cancelled, the alarm stored, and a timer set if its time is to
   come. *)
scheduleAlarmGranted(svc, h, ref) ==
    LET options == h[ref]
        cancelled1 == cancelAlarm(svc, h, options.id)
        stored == [cancelled1 EXCEPT !.alarms = Append(@, ref)]
        timeUntilAlarm == options.time - now
        timeout == NewHandle(stored)
    IN  IF timeUntilAlarm > 0
        THEN [stored EXCEPT
                !.timers = @ \cup {[handle |-> timeout, ref |-> ref,
                                    at |-> options.time]},
                !.timeouts = [i \in DOMAIN @ \cup {options.id} |->
                                IF i = options.id THEN timeout ELSE @[i]]]
        ELSE stored

(* The service becomes svc over the objects h, and the alarms are saved. *)
Becomes(svc, h) ==
    /\ alarms' = svc.alarms
    /\ timeouts' = svc.timeouts
    /\ timers' = svc.timers
    /\ heap' = h
    /\ localStorage' = saveAlarms(svc.alarms, h)

(* scheduleAlarm(options), options being the object ref of h, from the service
   svc: it runs to its end when the permission is granted, and is suspended at
   await this.requestPermission() otherwise. *)
scheduleAlarm(svc, h, ref) ==
    IF permission = "granted"
    THEN /\ Becomes(scheduleAlarmGranted(svc, h, ref), h)
         /\ pending' = pending
    ELSE /\ alarms' = svc.alarms
         /\ timeouts' = svc.timeouts
         /\ timers' = svc.timers
         /\ heap' = h
         /\ pending' = Append(pending, ref)

(* scheduleWakeAlarm, scheduleBedtimeReminder: scheduleAlarm with a new, enabled
   AlarmOptions object. *)
ScheduleAlarm(id, delay) ==
    /\ nops < MaxAlarmOps
    /\ nops' = nops + 1
    /\ LET h == Append(heap, [id |-> id, time |-> now + delay, isEnabled |-> TRUE])
       IN  /\ scheduleAlarm(Service, h, Len(h))
           /\ IF permission = "granted" THEN TRUE ELSE UNCHANGED localStorage
    /\ cancelled' = cancelled \ {id}
    /\ UNCHANGED <<now, permission, shown>>
    /\ UNCHANGED <<sig, wakeVars, debtVars, pureVars, observed>>

(* The user answers the permission prompt (at once, when the permission is
   already granted or denied), and the oldest suspended scheduleAlarm goes on. *)
PermissionAnswered(answer) ==
    /\ pending # <<>>
    /\ answer \in (IF permission = "default"
                    THEN {"granted", "denied", "default"} ELSE {permission})
    /\ permission' = answer
    /\ pending' = Tail(pending)
    /\ IF answer = "granted"
       THEN Becomes(scheduleAlarmGranted(Service, heap, Head(pending)), heap)
       ELSE UNCHANGED <<alarms, timeouts, timers, heap, localStorage>>
    /\ UNCHANGED <<now, nops, shown, cancelled>>
    /\ UNCHANGED <<sig, wakeVars, debtVars, pureVars, observed>>

CancelAlarm(id) ==
    /\ nops < MaxAlarmOps
    /\ nops' = nops + 1
    /\ Becomes(cancelAlarm(Service, heap, id), heap)
    /\ cancelled' = cancelled \cup {id}
    /\ UNCHANGED <<now, pending, permission, shown>>
    /\ UNCHANGED <<sig, wakeVars, debtVars, pureVars, observed>>

(* toggleAlarm(id, enabled) for an alarm the service has; for another id it
   returns at once. *)
ToggleAlarm(id, enabled) ==
    /\ nops < MaxAlarmOps
    /\ alarmsGet(id) # NULL
    /\ nops' = nops + 1
    /\ LET ref == alarmsGet(id)
           h == [heap EXCEPT ![ref].isEnabled = enabled]
       IN  IF enabled
           THEN /\ scheduleAlarm(Service, h, ref)
                /\ IF permission = "granted" THEN TRUE
                   ELSE localStorage' = saveAlarms(alarms, h)
           ELSE /\ Becomes(clearTimer(Service, id), h)
                /\ pending' = pending
    /\ cancelled' = cancelled \ {id}
    /\ UNCHANGED <<now, permission, shown>>
    /\ UNCHANGED <<sig, wakeVars, debtVars, pureVars, observed>>

ClearAllAlarms ==
    /\ nops < MaxAlarmOps
    /\ nops' = nops + 1
    /\ Becomes([alarms |-> <<>>, timeouts |-> <<>>, timers |-> {}], heap)
    /\ UNCHANGED <<now, pending, permission, shown, cancelled>>
    /\ UNCHANGED <<sig, wakeVars, debtVars, pureVars, observed>>

(* A timer fires when its time has come: triggerAlarm(alarm) shows the
   notification of an enabled alarm and deletes the id from timeouts. *)
TimerFires(timer) ==
    /\ timer \in timers
    /\ now' = Max(now, timer.at)
    /\ timers' = timers \ {timer}
    /\ LET alarm == heap[timer.ref]
       IN  IF ~alarm.isEnabled
           THEN UNCHANGED <<timeouts, shown>>
           ELSE /\ shown' = shown \cup {[id |-> alarm.id,
                                         afterCancel |-> alarm.id \in cancelled]}
                /\ timeouts' = [i \in DOMAIN timeouts \ {alarm.id} |-> timeouts[i]]
    /\ UNCHANGED <<heap, alarms, pending, permission, cancelled, localStorage, nops>>
    /\ UNCHANGED <<sig, wakeVars, debtVars, pureVars, observed>>

InitAlarm ==
    /\ NoService
    /\ now = PlanBase
    /\ input = <<>>
    /\ output = <<>>

NextAlarm ==
    \/ \E id \in AlarmIds, delay \in AlarmDelays : ScheduleAlarm(id, delay)
    \/ \E answer \in {"granted", "denied", "default"} : PermissionAnswered(answer)
    \/ \E id \in AlarmIds : CancelAlarm(id)
    \/ \E id \in AlarmIds, enabled \in BOOLEAN : ToggleAlarm(id, enabled)
    \/ ClearAllAlarms
    \/ \E timer \in timers : TimerFires(timer)

SpecAlarm == InitAlarm /\ [][NextAlarm]_vars

----------------------------------------------------------------------------
(* Properties of the detector *)

IsPrefix(s, t) == Len(s) <= Len(t) /\ s = SubSeq(t, 1, Len(s))

(* The step is the visibilitychange listener running while monitoring is active. *)
ActiveVisibilityStep ==
    sig' = "visibilitychange" /\ nops' = nops + 1 /\ isActive

(* The step is notifyWakeEvent returning to handleScreenVisible. *)
VisibleReturnStep ==
    /\ stack # <<>>
    /\ Len(stack') < Len(stack)
    /\ Top.kind = "visible"

(* C1: while monitoring is active, a transition to foreground d minutes after the
   last recorded transition emits no WakeEvent when d < 180, and when d >= 180
   exactly one, of source 'visibility' and timestamp now, whose confidence is
   'low' for 180 <= d < 360, 'medium' for 360 <= d < 480 and 'high' for d >= 480. *)
C1_ForegroundWakeEvent ==
    [][ (ActiveVisibilityStep /\ visibilityState' = "visible"
           /\ lastVisibilityChange # NULL)
        => LET d == now' - lastVisibilityChange
           IN  IF d < 180
               THEN stack' = <<>>
               ELSE /\ Len(stack') = 1
                    /\ stack'[1].event =
                         [timestamp |-> now',
                          confidence |-> IF d < 360 THEN "low"
                                         ELSE IF d < 480 THEN "medium" ELSE "high",
                          source |-> "visibility"] ]_vars

C1_Witness ==
    /\ Len(stack) = 1
    /\ stack[1].event.source = "visibility"
    /\ stack[1].event.confidence = "medium"
    /\ stack[1].d = 479

(* C2: a transition to foreground with d >= 180 appends exactly one session to the
   stored history, with bedtime the last recorded transition, wakeTime now and
   cycles the nearest integer to d / 90 (what was stored before stays, as far as
   it is of the last 30 days); with d < 180 the stored history is unchanged; in
   both cases, and on every transition to background, the last-transition
   timestamp becomes now. *)
C2_ForegroundStoresSession ==
    [][ /\ VisibleReturnStep
          => LET before == getSleepHistory
                 after == getSleepHistory'
                 d == Top.at - lastVisibilityChange
             IN  /\ d >= 180
                 /\ Len(after) >= 1
                 /\ Front(after) =
                      SelectSeq(before, LAMBDA s : s.wakeTime >= now - 30 * 24 * 60)
                 /\ Last(after).bedtime = lastVisibilityChange
                 /\ Last(after).wakeTime = Top.at
                 /\ Top.at = now
                 /\ 90 * Last(after).cycles - 45 <= d
                 /\ d < 90 * Last(after).cycles + 45
                 /\ lastVisibilityChange' = now
        /\ (ActiveVisibilityStep /\ visibilityState' = "visible"
              /\ lastVisibilityChange # NULL /\ now' - lastVisibilityChange < 180)
          => (localStorage' = localStorage /\ lastVisibilityChange' = now')
        /\ (ActiveVisibilityStep /\ visibilityState' = "hidden")
          => (localStorage' = localStorage /\ lastVisibilityChange' = now') ]_vars

C2_Witness ==
    /\ done # <<>>
    /\ done[1].kind = "visible"
    /\ done[1].d = 359
    /\ lastVisibilityChange = now
    /\ Len(getSleepHistory) >= 1
    /\ Last(getSleepHistory).cycles = 4
    /\ Last(getSleepHistory).wakeTime = now

(* C7: logManualSleep(bedtime, wakeTime, quality) persists a session marked as
   manual (not auto-detected) that carries the given bedtime, wakeTime and quality,
   and emits exactly one WakeEvent of confidence 'high', source 'manual' and
   timestamp wakeTime.  Stated for the moment logManualSleep has returned. *)
C7_ManualLogPersistsManualSession ==
    (done # <<>> /\ done[1].kind = "manual")
    => /\ done[1].event =
            [timestamp |-> done[1].at, confidence |-> "high", source |-> "manual"]
       /\ \E i \in DOMAIN getSleepHistory :
            /\ getSleepHistory[i].bedtime = done[1].at - done[1].d
            /\ getSleepHistory[i].wakeTime = done[1].at
            /\ getSleepHistory[i].quality = done[1].quality
            /\ getSleepHistory[i].isAutoDetected = FALSE

(* C8: an exception thrown by a listener is caught and discarded: the listeners
   registered when the notification began are all called once, the state update
   that follows the notification happens (session stored, last-transition
   timestamp set), and no exception leaves notifyWakeEvent. *)
C8_ListenerErrorIsolated ==
    /\ ~propagated
    /\ (done # <<>> /\ done[1].threw)
       => /\ done[1].got = done[1].snap
          /\ done[1].kind = "visible"
             => /\ lastVisibilityChange = done[1].at
                /\ Len(getSleepHistory) >= 1
                /\ Last(getSleepHistory).wakeTime = done[1].at
                /\ Last(getSleepHistory).bedtime = done[1].at - done[1].d

C8_Witness ==
    /\ done # <<>>
    /\ done[1].threw
    /\ done[1].kind = "visible"
    /\ done[1].snap = <<1, 2>>
    /\ done[1].got = <<1, 2>>
    /\ lastVisibilityChange = now

(* C9: when a listener registers or removes listeners or starts a nested
   notification while it handles an event, the listeners that were registered
   when that notification began, and only they, each receive the event once, in
   the order of registration. *)
C9_ReentrantDelivery ==
    /\ \A i \in DOMAIN stack :
         stack[i].reent => IsPrefix(stack[i].got, stack[i].snap)
    /\ (done # <<>> /\ done[1].reent) => done[1].got = done[1].snap

C9_Witness ==
    /\ done # <<>>
    /\ done[1].reent
    /\ Len(done[1].snap) = 2
    /\ done[1].got = done[1].snap
    /\ wakeCallbacks # done[1].snap

(* C10: a user-interaction signal never creates or changes a stored session and
   never changes the last-transition timestamp; with monitoring active and at
   least 180 minutes since the last recorded transition it emits one WakeEvent of
   confidence 'medium' and source 'user-interaction', and otherwise nothing. *)
C10_UserInteractionOnlyNotifies ==
    [][ /\ (sig' = "interaction" /\ nops' = nops + 1)
          => /\ localStorage' = localStorage
             /\ lastVisibilityChange' = lastVisibilityChange
             /\ IF isActive /\ lastVisibilityChange # NULL
                   /\ now' - lastVisibilityChange >= 180
                THEN /\ Len(stack') = 1
                     /\ stack'[1].event = [timestamp |-> now', confidence |-> "medium",
                                           source |-> "user-interaction"]
                ELSE stack' = <<>>
        /\ (stack # <<>> /\ stack[1].kind = "interaction")
          => /\ localStorage' = localStorage
             /\ lastVisibilityChange' = lastVisibilityChange ]_vars

C10_Witness ==
    /\ done # <<>>
    /\ done[1].kind = "interaction"
    /\ done[1].d = 180
    /\ lastVisibilityChange = now - 180

----------------------------------------------------------------------------
(* Properties of the tracker *)

(* The 7 calendar days ending with and including today, today first. *)
SevenDaysEndingToday == [i \in 1..7 |-> subDays(startOfDay(now), i - 1)]

(* The deficit of the day of date over the stored sessions: the optimal hours when
   the day has no session, else what its session lacks to the optimal hours. *)
DayDeficit(date, optimal) ==
    LET daySession == FindDaySession(getSleepSessions, date)
    IN  IF daySession = <<>> THEN optimal
        ELSE Max(0, optimal - daySession[1].actualSleepHours)

(* C3: a session the detector has persisted is part of the history the tracker
   reads: a day of the 7-day window for which the detector holds a session is not
   a day without data for calculateSleepDebt(getSleepSessions()). *)
C3_DetectorSessionsFeedDebt ==
    \A i \in DOMAIN getSleepHistory :
        (\E k \in 1..7 : SevenDaysEndingToday[k] = startOfDay(getSleepHistory[i].wakeTime))
        => FindDaySession(getSleepSessions, getSleepHistory[i].wakeTime) # <<>>

(* C4: totalHours is, rounded to one decimal, the sum over the 7 calendar days
   ending with and including today of the day's deficit. *)
C4_TotalOverSevenDaysEndingToday ==
    debt # <<>>
    => debt[1].totalHours =
         RoundToTenth(Sum([k \in 1..7 |->
                             DayDeficit(SevenDaysEndingToday[k], debt[1].optimalSleepHours)]),
                      1)

(* C5: dailyDeficit is today's deficit (the optimal hours when today has no
   session), and weeklyAverage the mean of the 7 daily values of the total. *)
C5_DailyDeficitIsTodays ==
    debt # <<>>
    => /\ debt[1].dailyDeficit =
            RoundToTenth(DayDeficit(startOfDay(now), debt[1].optimalSleepHours), 1)
       /\ debt[1].weeklyAverage =
            RoundToTenth(Sum([k \in 1..7 |->
                                DayDeficit(SevenDaysEndingToday[k],
                                           debt[1].optimalSleepHours)]),
                         7)

(* C6: after any sequence of addSleepSession calls the stored history holds at
   most one session per calendar day, the one added last for that day, holds no
   session dated more than 30 days before the last insertion, and is sorted
   ascending by date. *)
C6_HistoryPerDayCappedSorted ==
    LET h == getSleepSessions
    IN  /\ \A i, j \in DOMAIN h :
             i < j => /\ startOfDay(h[i].date) # startOfDay(h[j].date)
                      /\ h[i].date < h[j].date
        /\ \A i \in DOMAIN h :
             /\ startOfDay(h[i].date) \in DOMAIN lastAdded
             /\ h[i] = lastAdded[startOfDay(h[i].date)]
             /\ h[i].date >= lastInsert - 30 * 24 * 60

C6_Witness ==
    /\ Len(getSleepSessions) = 2
    /\ getSleepSessions[1].date < getSleepSessions[2].date
    /\ startOfDay(now) \in DOMAIN lastAdded
    /\ getSleepSessions[2] = lastAdded[startOfDay(now)]
    /\ Cardinality(DOMAIN lastAdded) = 3

----------------------------------------------------------------------------
(* Properties of the sleep planner *)

Called(fn) == output # <<>> /\ output[1].fn = fn

(* C11: for every wake time W and every cycle count c in 3..6,
   calculateWakeTimeFromBedtime(calculateBedtimeForCycles(W, c), c) is W. *)
C11_BedtimeWakeRoundTrip ==
    (Called("calculateWakeTimeFromBedtime")
       /\ output[1].cycles = output[1].from.cycles
       /\ output[1].cycles \in 3..6)
    => output[1].value = output[1].from.wakeTime

C11_Witness ==
    /\ Called("calculateWakeTimeFromBedtime")
    /\ output[1].cycles = 6
    /\ output[1].from.cycles = 6
    /\ output[1].bedtime = input.wakeTime - 570
    /\ output[1].value = input.wakeTime

(* C12: calculateOptimalBedtimes(W) returns exactly four recommendations, for the
   cycle counts 3, 4, 5, 6 in this order; the entry for c cycles has bedtime
   W - (c x 90 + onset buffer) minutes with one onset buffer for the four
   entries, duration c x 1.5 hours and quality 'short' for c = 3, 'optimal' for
   c = 4 and 'extended' for c = 5 and c = 6. *)
C12_FourRecommendations ==
    Called("calculateOptimalBedtimes")
    => LET r == output[1].value.recommendedBedtimes
           W == output[1].wakeTime
       IN  /\ Len(r) = 4
           /\ \E onsetBuffer \in 0..60 :
                \A i \in 1..4 : r[i].bedtime = W - ((i + 2) * 90 + onsetBuffer)
           /\ \A i \in 1..4 : r[i].cycles = i + 2 /\ r[i].duration = (i + 2) * 150
           /\ r[1].quality = "short"
           /\ r[2].quality = "optimal"
           /\ r[3].quality = "extended"
           /\ r[4].quality = "extended"

C12_Witness ==
    /\ Called("calculateOptimalBedtimes")
    /\ input.build = 2
    /\ Len(output[1].value.recommendedBedtimes) = 4
    /\ output[1].value.recommendedBedtimes[3].bedtime = input.wakeTime - 465
    /\ output[1].value.recommendedBedtimes[3].quality = "extended"

(* The EnhancedSleepCalculation the last call produced, if it produced one. *)
Planned == Called("calculateEnhancedSleepSchedule") \/ Called("enhancedScheduleEffect")
Calculation ==
    IF Called("enhancedScheduleEffect") THEN output[1].value.calculation
    ELSE output[1].value

(* score is x rounded, for x = max(0, 100 - (d / 60) x 100), d whole minutes:
   an integer within a half of x (3x = 300 - 5d is an integer). *)
IsRoundedMatchScore(score, d) ==
    /\ score \in Int
    /\ IF d >= 60 THEN score = 0
       ELSE 2 * Abs(3 * score - (300 - 5 * d)) <= 3

(* C13: every SleepOption of the enhanced mode has matchScore =
   round(max(0, 100 - (|calculatedWakeTime - targetWakeTime| in minutes / 60) x 100)):
   an integer in [0, 100], 100 when the two times are equal and 0 when they
   are 60 minutes or more apart. *)
C13_MatchScore ==
    Planned
    => \A i \in DOMAIN Calculation.sleepOptions :
         LET o == Calculation.sleepOptions[i]
             d == Abs(o.calculatedWakeTime - Calculation.targetWakeTime)
         IN  /\ IsRoundedMatchScore(o.matchScore, d)
             /\ o.matchScore >= 0 /\ o.matchScore <= 100
             /\ d = 0 => o.matchScore = 100
             /\ d >= 60 => o.matchScore = 0

C13_Witness ==
    /\ Called("calculateEnhancedSleepSchedule")
    /\ Abs(Calculation.sleepOptions[1].calculatedWakeTime - Calculation.targetWakeTime) = 40
    /\ Calculation.sleepOptions[1].matchScore = 33
    /\ Abs(Calculation.sleepOptions[3].calculatedWakeTime - Calculation.targetWakeTime) = 20
    /\ Calculation.sleepOptions[3].matchScore = 67

(* C14: bestMatch is an element of sleepOptions whose matchScore is maximal, and
   the first such element in the order of sleepOptions. *)
C14_BestMatchFirstMaximal ==
    Planned
    => LET options == Calculation.sleepOptions
           best == Calculation.bestMatch
       IN  /\ best # <<>>
           /\ \E i \in DOMAIN options :
                /\ options[i] = best[1]
                /\ \A j \in DOMAIN options : options[j].matchScore <= best[1].matchScore
                /\ \A j \in 1..(i - 1) : options[j].matchScore < best[1].matchScore

C14_Witness ==
    /\ Called("calculateEnhancedSleepSchedule")
    /\ Len(Calculation.sleepOptions) = 4
    /\ Calculation.sleepOptions[2].matchScore = 75
    /\ Calculation.sleepOptions[3].matchScore = 75
    /\ Calculation.sleepOptions[1].matchScore < 75
    /\ Calculation.bestMatch = <<Calculation.sleepOptions[2]>>

(* cycles is the cycle count in 3..6 whose wake time after onset is closest to
   target, the lower count when two are equally close. *)
IsClosestCycles(cycles, onset, target) ==
    /\ cycles \in 3..6
    /\ \A c \in 3..6 :
         LET dc == Abs(onset + c * 90 - target)
             d == Abs(onset + cycles * 90 - target)
         IN  d <= dc /\ (d = dc => cycles <= c)

(* C15: for each awake-duration hypothesis h the option has bedtimeAlarm =
   currentWakeTime + h hours, actualSleepTime = bedtimeAlarm + the onset buffer
   and calculatedWakeTime = actualSleepTime + cycles x 90 minutes, cycles being
   the value in 3..6 that minimises |calculatedWakeTime - targetWakeTime|, the
   lower one when two are equally close. *)
C15_OptionTimes ==
    Planned
    => \A i \in DOMAIN Calculation.sleepOptions :
         LET o == Calculation.sleepOptions[i]
         IN  /\ 100 * (o.bedtimeAlarm - Calculation.currentWakeTime) = 60 * o.awakeHours
             /\ o.actualSleepTime = o.bedtimeAlarm + 30
             /\ o.calculatedWakeTime = o.actualSleepTime + o.cycles * 90
             /\ o.actualSleepDuration = o.cycles * 150
             /\ IsClosestCycles(o.cycles, o.actualSleepTime, Calculation.targetWakeTime)

C15_Witness ==
    /\ Called("calculateEnhancedSleepSchedule")
    /\ Calculation.targetWakeTime = Calculation.currentWakeTime + 1215
    /\ Len(Calculation.sleepOptions) = 3
    /\ Calculation.sleepOptions[1].awakeHours = 1450
    /\ Calculation.sleepOptions[1].bedtimeAlarm = Calculation.currentWakeTime + 870
    /\ Calculation.sleepOptions[1].cycles = 3
    /\ Calculation.sleepOptions[1].calculatedWakeTime = Calculation.targetWakeTime - 45

(* C16: calculateEnhancedSleepSchedule produces exactly three options, for the
   awake durations 14.5, 16 and 18 hours in this order, tagged short,
   recommended and extended, when no custom awake duration is given or the
   given one is outside [11.5, 14.5); and exactly four, the custom one first and
   tagged 'custom', when 11.5 <= custom < 14.5. *)
C16_OptionsPerHypothesis ==
    Planned
    => LET custom == Calculation.customAwakeDuration
           options == Calculation.sleepOptions
           hypotheses == [i \in DOMAIN options |->
                            <<options[i].awakeHours, options[i].quality>>]
           standard == << <<1450, "short">>, <<1600, "recommended">>,
                          <<1800, "extended">> >>
       IN  IF custom # NULL /\ custom >= 1150 /\ custom < 1450
           THEN hypotheses = << <<custom, "custom">> >> \o standard
           ELSE hypotheses = standard

C16_Witness ==
    /\ Called("calculateEnhancedSleepSchedule")
    /\ Calculation.customAwakeDuration = 1445
    /\ Len(Calculation.sleepOptions) = 4
    /\ Calculation.sleepOptions[1].quality = "custom"
    /\ Calculation.sleepOptions[1].bedtimeAlarm = Calculation.currentWakeTime + 867

(* C17: when the target wake time the dashboard has parsed is not strictly after
   the current wake time, every option and match score is computed against the
   target moved to the following calendar day; the target of the calculation is
   always strictly after the current wake time. *)
C17_TargetRolledForward ==
    Called("enhancedScheduleEffect")
    => LET e == output[1].value
           target == IF e.parsedTarget <= e.currentWake
                     THEN e.parsedTarget + 24 * 60 ELSE e.parsedTarget
       IN  /\ e.calculation.targetWakeTime = target
           /\ e.calculation.currentWakeTime = e.currentWake
           /\ e.calculation.targetWakeTime > e.currentWake
           /\ \A i \in DOMAIN e.calculation.sleepOptions :
                LET o == e.calculation.sleepOptions[i]
                IN  /\ IsClosestCycles(o.cycles, o.actualSleepTime, target)
                    /\ IsRoundedMatchScore(o.matchScore,
                                           Abs(o.calculatedWakeTime - target))

C17_Witness ==
    /\ Called("enhancedScheduleEffect")
    /\ output[1].value.parsedTarget = output[1].value.currentWake
    /\ output[1].value.calculation.targetWakeTime = output[1].value.currentWake + 24 * 60
    /\ output[1].value.calculation.bestMatch # <<>>
    /\ output[1].value.calculation.bestMatch[1].matchScore = 100

----------------------------------------------------------------------------
(* Properties of the severity, the recovery and the energy level *)

(* C18: getSleepDebtSeverity(debt) is none for debt <= 1, mild for 1 < debt <= 3,
   moderate for 3 < debt <= 6, severe for 6 < debt <= 10 and extreme for
   debt > 10 (hours): 1.0 none, 1.01 mild, 3.0 mild, 3.01 moderate, 6.0 moderate,
   6.01 severe, 10.0 severe, 10.01 extreme. *)
C18_SeverityBoundaries ==
    Called("getSleepDebtSeverity")
    => LET d == output[1].debtHours
           level == output[1].value.level
       IN  /\ level = "none" <=> d <= 100
           /\ level = "mild" <=> (100 < d /\ d <= 300)
           /\ level = "moderate" <=> (300 < d /\ d <= 600)
           /\ level = "severe" <=> (600 < d /\ d <= 1000)
           /\ level = "extreme" <=> d > 1000
           /\ d = 101 => level = "mild"
           /\ d = 301 => level = "moderate"
           /\ d = 601 => level = "severe"
           /\ d = 1001 => level = "extreme"

C18_Witness ==
    /\ Called("getSleepDebtSeverity")
    /\ output[1].debtHours = 1000
    /\ output[1].value.level = "severe"

(* C19: getSleepDebtRecovery(debt, extra) returns daysToRecover = ceil(debt / extra)
   and recoveryDate = today + daysToRecover days when debt > 0, extra being 1
   hour per day when it is left out, and daysToRecover = 0 with recoveryDate =
   today when debt is 0. *)
C19_RecoveryTimeline ==
    Called("getSleepDebtRecovery")
    => LET d == output[1].currentDebt
           extra == IF output[1].dailyExtra = NULL THEN 100 ELSE output[1].dailyExtra
           days == output[1].value.daysToRecover
       IN  /\ days \in Nat
           /\ IF d > 0
              THEN days * extra >= d /\ (days - 1) * extra < d
              ELSE days = 0
           /\ output[1].value.recoveryDate = now + days * 24 * 60

C19_Witness ==
    /\ Called("getSleepDebtRecovery")
    /\ output[1].currentDebt = 301
    /\ output[1].dailyExtra = 150
    /\ output[1].value.daysToRecover = 3
    /\ output[1].value.recoveryDate = now + 3 * 24 * 60

(* C20: the level of the EnergyLevel calculateCurrentEnergyLevel returns, and of
   every entry generateEnergyForecast returns, is within [5, 100], for every
   sun phase, time of day, total debt and weekly-average debt. *)
C20_LevelWithinBounds ==
    /\ Called("calculateCurrentEnergyLevel")
         => (output[1].value.level >= 5 /\ output[1].value.level <= 100)
    /\ Called("generateEnergyForecast")
         => \A i \in DOMAIN output[1].value :
              output[1].value[i].level >= 5 /\ output[1].value[i].level <= 100

C20_Witness ==
    /\ Called("generateEnergyForecast")
    /\ Len(output[1].value) = 24
    /\ \E i \in DOMAIN output[1].value : output[1].value[i].level = 5
    /\ \E i \in DOMAIN output[1].value : output[1].value[i].level = 100
    /\ \E i \in DOMAIN output[1].value :
         output[1].value[i].level > 5 /\ output[1].value[i].level < 100

(* The phase that belongs to a rounded level. *)
PhaseOfLevel(level) ==
    IF level >= 80 THEN "peak"
    ELSE IF level >= 60 THEN "moderate"
    ELSE IF level >= 30 THEN "low"
    ELSE "crash"

(* C21: in every EnergyLevel calculateCurrentEnergyLevel or generateEnergyForecast
   returns, the phase agrees with the returned level: peak iff level >= 80,
   moderate iff 60 <= level < 80, low iff 30 <= level < 60, crash iff
   level < 30. *)
C21_PhaseAgreesWithLevel ==
    /\ Called("calculateCurrentEnergyLevel")
         => output[1].value.phase = PhaseOfLevel(output[1].value.level)
    /\ Called("generateEnergyForecast")
         => \A i \in DOMAIN output[1].value :
              output[1].value[i].phase = PhaseOfLevel(output[1].value[i].level)

(* C22: getCurrentSunPhase classifies now as night before nautical dawn, dawn
   from nautical dawn until sunrise, day from sunrise until sunset, dusk from
   sunset until nautical dusk and night from nautical dusk on; the
   nextTransition it returns is strictly later than now (after nautical dusk:
   the next day's dawn) and timeToNext is the floor of the minutes until it,
   never negative. *)
C22_SunPhaseAndNextTransition ==
    Called("getCurrentSunPhase")
    => LET c == input.circadianData
           v == output[1].value
       IN  /\ v.phase = (IF now < c.nauticalDawn THEN "night"
                         ELSE IF now < c.sunrise THEN "dawn"
                         ELSE IF now < c.sunset THEN "day"
                         ELSE IF now < c.nauticalDusk THEN "dusk"
                         ELSE "night")
           /\ v.nextTransition > now
           /\ now >= c.nauticalDusk => v.nextTransition = c.nauticalDawn + 24 * 60
           /\ v.timeToNext = v.nextTransition - now
           /\ v.timeToNext >= 0

----------------------------------------------------------------------------
(* Properties of the circadian alignment *)

(* How far a time lies outside a window; 0 inside. *)
Distance(time, window) ==
    IF time < window.start THEN window.start - time
    ELSE IF time > window.end THEN time - window.end
    ELSE 0

(* score is the alignment the claim gives time against window: 100 inside, 0
   from twice the duration on, and between those the integer nearest to
   100 - distance / (2 x duration) x 100, a half going up; no time of times
   that is at least as far from the window scores more. *)
IsAlignmentScore(score, time, window, times) ==
    LET distance == Distance(time, window)
        twice == 2 * (window.end - window.start)
        exact == 100 * twice - 100 * distance
    IN  /\ distance = 0 => score = 100
        /\ score >= 0
        /\ distance >= twice => score = 0
        /\ (distance > 0 /\ distance < twice)
             => /\ 2 * twice * score > 2 * exact - twice
                /\ 2 * twice * score <= 2 * exact + twice
        /\ \A other \in times :
             Distance(other, window) >= distance
             => calculateTimeWindowAlignment(other, window.start, window.end)
                  <= score

(* C23: the alignment score of a time against a window is 100 inside the
   window, never negative, never increases as the distance from the window
   grows, is 0 once the distance reaches twice the window's duration, and
   between those equals round(100 - distance / (2 x duration) x 100), before
   the window as after it. *)
C23_AlignmentScore ==
    Called("calculateCircadianAlignment")
    => /\ IsAlignmentScore(output[1].value.sleepAlignment, output[1].bedtime,
                           input.circadianData.optimalSleepWindow, AlignBedtimes)
       /\ IsAlignmentScore(output[1].value.wakeAlignment, output[1].wakeTime,
                           input.circadianData.optimalWakeWindow, AlignWakeTimes)

C23_Witness ==
    /\ Called("calculateCircadianAlignment")
    /\ output[1].bedtime < input.circadianData.optimalSleepWindow.start
    /\ output[1].value.sleepAlignment = 50
    /\ Distance(output[1].wakeTime, input.circadianData.optimalWakeWindow)
         > 2 * 90
    /\ output[1].wakeTime > input.circadianData.optimalWakeWindow.end
    /\ output[1].value.wakeAlignment = 0

----------------------------------------------------------------------------
(* Properties of the parsing of the wake time *)

(* C24: parseWakeTime never returns an invalid date: given a string that is not
   a valid HH:mm time it fails with a parse error instead, so that no invalid
   date reaches calculateOptimalBedtimes or calculateEnhancedSleepSchedule
   through it. *)
C24_NoInvalidDate ==
    /\ Called("parseWakeTime") => output[1].value # NaN
    /\ Called("sleepCalculation") => output[1].value.wakeTime # NaN
    /\ Called("enhancedScheduleEffect")
         => /\ output[1].value.calculation.currentWakeTime # NaN
            /\ output[1].value.calculation.targetWakeTime # NaN

----------------------------------------------------------------------------
(* Properties of the insights and of the forecast *)

(* C25: generateEnergyInsights emits the sleep-debt warning exactly when the
   severity of sleepDebt.totalHours is moderate or severe (3 < debt <= 10
   hours), with priority 9 when severe and 7 when moderate, and none when it
   is none, mild or extreme; the list it returns is in descending order of
   priority. *)
C25_DebtWarningAndOrder ==
    Called("generateEnergyInsights")
    => LET insights == output[1].value
           d == input.sleepDebt.totalHours
           warnings == SelectSeq(insights, LAMBDA a : a.id = "sleep-debt-warning")
       IN  /\ Len(warnings) = (IF 300 < d /\ d <= 1000 THEN 1 ELSE 0)
           /\ \A i \in DOMAIN warnings :
                warnings[i].priority = (IF d > 600 THEN 9 ELSE 7)
           /\ \A i \in DOMAIN insights : \A j \in DOMAIN insights :
                i < j => insights[i].priority >= insights[j].priority

C25_Witness ==
    /\ Called("generateEnergyInsights")
    /\ input.sleepDebt.totalHours = 601
    /\ Len(output[1].value) = 3
    /\ output[1].value[1].id = "sleep-debt-warning"
    /\ output[1].value[1].priority = 9
    /\ output[1].value[2].id = "upcoming-dip"
    /\ output[1].value[3].priority = 4

(* The debt penalty the claim gives the offset i, in units of 1/EnergyScale:
   min(40, 5 x max(0, totalHours - 8)) for i in 9..15, min(40, 5 x totalHours)
   otherwise. *)
ClaimedPenalty(totalHours, i) ==
    LET hours == IF i \in 9..15
                 THEN (IF totalHours > 800 THEN totalHours - 800 ELSE 0)
                 ELSE totalHours
        penalty == (5 * hours * EnergyScale) \div 100
    IN  IF penalty > 40 * EnergyScale THEN 40 * EnergyScale ELSE penalty

(* The level of the offset i when its penalty is penalty. *)
LevelWithPenalty(i, penalty) ==
    LET base == getCircadianEnergyLevel(
                    getCurrentSunPhase(input.circadianData).phase,
                    now + 60 * i, input.circadianData)
    IN  MathRound(ClampEnergy(base - penalty), EnergyScale)

(* C26: generateEnergyForecast returns exactly 24 entries, entry i (0..23) with
   timestamp now + i hours and confidence 0.7 - 0.02 x i; the level of entry i
   is the one its circadian energy gives with the debt penalty
   min(40, 5 x max(0, totalHours - 8)) for i in 9..15 and
   min(40, 5 x totalHours) for every other offset. *)
C26_ForecastEntries ==
    Called("generateEnergyForecast")
    => /\ Len(output[1].value) = 24
       /\ \A i \in 0..23 :
            LET e == output[1].value[i + 1]
            IN  /\ e.timestamp = now + 60 * i
                /\ e.confidence = 70 - 2 * i
                /\ e.level = LevelWithPenalty(i,
                                 ClaimedPenalty(input.sleepDebt.totalHours, i))

C26_Witness ==
    /\ Called("generateEnergyForecast")
    /\ input.sleepDebt.totalHours = 1000
    /\ \E i \in {8, 9, 15, 16} :
         /\ LevelWithPenalty(i, 10 * EnergyScale)
              # LevelWithPenalty(i, 40 * EnergyScale)
         /\ output[1].value[i + 1].level
              = LevelWithPenalty(i, IF i \in {9, 15} THEN 10 * EnergyScale
                                                    ELSE 40 * EnergyScale)
    /\ output[1].value[24].confidence = 24

----------------------------------------------------------------------------
(* Properties of the time until bedtime *)

(* C27: calculateOptimalBedtimes sets timeUntilBedtime to the minutes from now
   to the soonest of the four recommended bedtimes that is strictly after now,
   and to undefined exactly when none of the four is after now. *)
C27_TimeUntilSoonestBedtime ==
    Called("calculateOptimalBedtimes")
    => LET v == output[1].value
           upcoming == {v.recommendedBedtimes[i].bedtime :
                           i \in DOMAIN v.recommendedBedtimes} \ (0..now)
       IN  /\ Len(v.recommendedBedtimes) = 4
           /\ upcoming = {} <=> v.timeUntilBedtime = NULL
           /\ upcoming # {}
                => \E soonest \in upcoming :
                     /\ \A other \in upcoming : soonest <= other
                     /\ v.timeUntilBedtime = soonest - now

----------------------------------------------------------------------------
(* Properties of the detector under start and stop *)

(* C28: under every interleaving of start, stop and the foreground and
   background signals, when the visibility path has emitted a WakeEvent and
   stored a session, the stored interval [bedtime, wakeTime] is at least 180
   minutes long, the document was in the background for the whole of it, and
   monitoring was active for the whole of it: no period in the foreground and
   no period in which monitoring was stopped is recorded as sleep. *)
C28_StoredIntervalWasBackground ==
    (done # <<>> /\ done[1].kind = "visible")
    => LET wakeTime == done[1].at
           bedtime == done[1].at - done[1].d
       IN  /\ wakeTime - bedtime >= 180
           /\ observed.hiddenSince # NULL
           /\ bedtime >= observed.hiddenSince
           /\ observed.activeSince # NULL
           /\ bedtime >= observed.activeSince

(* C29: for one inactivity interval, that is for one recorded visibility
   transition, at most one WakeEvent is emitted in all, by the visibility path
   and the user-interaction path together, whatever signals follow. *)
C29_OneWakeEventPerInterval ==
    observed.on => observed.emitted <= 1

----------------------------------------------------------------------------
(* Properties of the NotificationService *)

(* C30: once cancelAlarm(id) has returned, and until scheduleAlarm or
   toggleAlarm is called for id again, id is absent from getAlarms() and no
   timer is pending for it, also when a scheduleAlarm(id) issued before the
   cancel still waits for the permission prompt; a cancelled alarm never
   fires. *)
C30_CancelledStaysCancelled ==
    /\ \A id \in cancelled :
         /\ \A i \in DOMAIN alarms : heap[alarms[i]].id # id
         /\ \A t \in timers : heap[t.ref].id # id
         /\ id \notin DOMAIN timeouts
    /\ \A notification \in shown : ~notification.afterCancel

====
